---- MODULE Spec2Model ----
(***************************************************************************)
(* A model of trakt-toggl-sync: the source (Trakt) history deduplicator,   *)
(* the destination (Toggl) entry cache, the existence check and the entry  *)
(* creation, the page-index paginator of the source history, and the sync  *)
(* run main() from the configuration check to the per-event loop.          *)
(*                                                                         *)
(* The specifications that share the module:                               *)
(*   SpecTrakt  the source deduplicator run on bounded histories;          *)
(*   Spec       the Toggl client driven by an arbitrary caller;            *)
(*   SpecRun    step 3 of main(): one create per fetched event;            *)
(*   SpecDedup  the destination deduplicator run on bounded entry lists;   *)
(*   SpecFetch  TraktAPI.fetch_history run on bounded page sequences;      *)
(*   SpecMain   main() from its first statement to its last;               *)
(*   SpecRace   two loops of main() interleaved over one client state;     *)
(*   SpecAgain  main() run a second time after a run without failures;     *)
(*   SpecStatic the clients of toggl.py and trakt.py run, each step        *)
(*              compared with the static methods of sync.py.               *)
(***************************************************************************)
EXTENDS Integers, Sequences, FiniteSets, TLC

VARIABLES
    history,          \* Trakt: the server's history, as /sync/history lists it
    tkLast,           \* Trakt: what the last remove_duplicates pass did
    tkPasses,         \* Trakt: number of passes run so far
    toggl_entries,    \* Toggl: the server's time entries
    cached_entries,   \* TogglAPI._cached_entries  (None or Some(list))
    cache_timestamp,  \* TogglAPI._cache_timestamp (None or Some(seconds))
    rate_limited,     \* TogglAPI._rate_limited
    now,              \* time.time(), in seconds
    lastOp,           \* what the last client operation did
    tgLast,           \* Toggl: what the last remove_duplicates pass did
    pc,               \* main(): position in the run
    events,           \* main(): the fetched trailing-window history
    idx,              \* main(): index of the next event to process
    create_calls,     \* main(): create calls issued so far in the run
    create_failed,    \* main(): create calls answered by a non-quota error
    created,          \* main(): entries created so far in the run
    runLog,           \* main(): messages printed at the end of the run
    config,           \* main(): the required variables missing from os.environ
    tokens,           \* main(): what the token file holds when the run starts
    steps,            \* main(): the steps executed so far, in order
    trakt_pages,      \* Trakt: the server's answer to each page of the window
    fhLast,           \* Trakt: what the last fetch_history call did
    race              \* two interleaved loops of main(): where each one stands

traktVars == <<history, tkLast, tkPasses>>
togglVars == <<toggl_entries, cached_entries, cache_timestamp, rate_limited,
               now, lastOp>>
mainVars  == <<config, tokens, steps, trakt_pages, fhLast, race>>
runVars   == <<pc, events, idx, create_calls, create_failed, created, runLog,
               mainVars>>
dedupVars == <<tgLast>>
vars      == <<traktVars, togglVars, runVars, dedupVars>>

\* Python's None and a present value.
None == <<>>
Some(x) == <<x>>

Range(s) == {s[i] : i \in 1..Len(s)}

(***************************************************************************)
(* Source deduplicator: TraktAPI.remove_duplicates                         *)
(***************************************************************************)

\* Bounds of the histories explored.
MaxHist == 3
MaxWatched == 2
MaxPasses == 2

\* A history record whose ids.trakt is missing: .get("trakt") gives None,
\* and "not item_key[1]" also holds for 0.
NoIdentity == 0

\* A trakt id that is present. One value is enough for two distinct keys, as
\* the key is (type, trakt id) and there are two types.
PresentTraktId == 1

Kinds == {"movie", "episode"}

\* The records /sync/history can list under history id n.
RecordsWithId(n) ==
    [id : {n}, type : Kinds, trakt : {NoIdentity, PresentTraktId},
     watched_at : 1..MaxWatched]

\* item_key: (type, ids.trakt of the movie or episode).
ItemKey(entry) == <<entry.type, entry.trakt>>

\* A comparison that lets a tie replace the kept record.
WatchedBeforeOrSame(a, b) == a <= b

\* unique_items[item_key]["watched_at"] < entry["watched_at"]: ISO-8601 UTC
\* strings of one format compare as the instants do.
WatchedBefore(a, b) == a < b

\* The loop building unique_items, over the history in scan order.
RECURSIVE unique_items(_)
unique_items(h) ==
    IF h = <<>> THEN [k \in {} |-> 0]
    ELSE LET m == unique_items(SubSeq(h, 1, Len(h) - 1))
             entry == h[Len(h)]
             item_key == ItemKey(entry)
         IN  IF item_key[2] = NoIdentity THEN m
             ELSE IF item_key \notin DOMAIN m
                     \/ WatchedBefore(m[item_key].watched_at, entry.watched_at)
                  THEN [k \in DOMAIN m \cup {item_key} |->
                           IF k = item_key THEN entry ELSE m[k]]
                  ELSE m

\* A duplicate set that holds every fetched record.
EveryRecordADuplicate(h) == h

\* duplicates = [entry for entry in history if entry not in unique_items.values()]
duplicates(h) ==
    LET m == unique_items(h)
        values == {m[k] : k \in DOMAIN m}
    IN  SelectSeq(h, LAMBDA entry : entry \notin values)

\* A payload that carries the first duplicate only.
RemovePayloadFirstOnly(dups) == IF dups = <<>> THEN <<>> ELSE <<dups[1].id>>

\* payload = {"ids": [entry["id"] for entry in duplicates]}
RemovePayload(dups) == [i \in 1..Len(dups) |-> dups[i].id]

\* The server's history after a bulk remove of the given ids.
HistoryAfterRemove(h, ids) == SelectSeq(h, LAMBDA entry : entry.id \notin Range(ids))

TkNoPass ==
    [fetched |-> <<>>, dups |-> <<>>, calls |-> 0, payload |-> <<>>,
     status |-> "none", outcome |-> "none", prev |-> "none"]

\* The remove call is not followed by raise_for_status(): no status raises.
RemoveRaisesOnFailure(status) == status # "200"
RemoveRaises(status) == FALSE

\* fetch_full_history raises (raise_for_status): the pass ends before the scan.
TraktPassFetchFails ==
    /\ tkLast' = [TkNoPass EXCEPT !.outcome = "raised", !.prev = tkLast.outcome]
    /\ UNCHANGED history

\* No duplicates: "No Trakt duplicates found", no network call beyond the fetch.
TraktPassNothing ==
    /\ duplicates(history) = <<>>
    /\ tkLast' = [fetched |-> history, dups |-> <<>>, calls |-> 0,
                  payload |-> <<>>, status |-> "none", outcome |-> "clean",
                  prev |-> tkLast.outcome]
    /\ UNCHANGED history

\* Duplicates found: one POST /sync/history/remove; 200 removes the ids listed,
\* any other status is reported and removes nothing.
TraktPassRemove ==
    /\ duplicates(history) # <<>>
    /\ \E status \in {"200", "other"} :
          LET dups == duplicates(history)
              payload == RemovePayload(dups)
          IN  /\ tkLast' = [fetched |-> history, dups |-> dups, calls |-> 1,
                            payload |-> payload, status |-> status,
                            outcome |-> IF RemoveRaises(status) THEN "raised"
                                        ELSE IF status = "200" THEN "removed"
                                        ELSE "failed",
                            prev |-> tkLast.outcome]
              /\ history' = IF status = "200"
                            THEN HistoryAfterRemove(history, payload)
                            ELSE history

\* A caller's remove_duplicates(access_token), by how the pass ends.
TraktDedupFetchFails ==
    /\ tkPasses < MaxPasses
    /\ TraktPassFetchFails
    /\ tkPasses' = tkPasses + 1
    /\ UNCHANGED <<togglVars, runVars, dedupVars>>

TraktDedupNothing ==
    /\ tkPasses < MaxPasses
    /\ TraktPassNothing
    /\ tkPasses' = tkPasses + 1
    /\ UNCHANGED <<togglVars, runVars, dedupVars>>

TraktDedupRemove ==
    /\ tkPasses < MaxPasses
    /\ TraktPassRemove
    /\ tkPasses' = tkPasses + 1
    /\ UNCHANGED <<togglVars, runVars, dedupVars>>

\* The account's history grows before the first pass: a play is recorded under
\* the next history id, or a record already listed is listed once more (a page
\* boundary that shifts during the fetch).
TraktWatch ==
    /\ tkPasses = 0
    /\ Len(history) < MaxHist
    /\ \/ \E r \in RecordsWithId(Len(history) + 1) : history' = Append(history, r)
       \/ \E i \in 1..Len(history) : history' = Append(history, history[i])
    /\ UNCHANGED <<tkLast, tkPasses, togglVars, runVars, dedupVars>>

TraktInit ==
    /\ history = <<>>
    /\ tkLast = TkNoPass
    /\ tkPasses = 0

(***************************************************************************)
(* Destination client: TogglAPI (toggl.py; sync.py holds the same code     *)
(* over process-wide state)                                                *)
(***************************************************************************)

\* Bounds of the client runs explored.
MaxTime == 301
MaxEvents == 5

\* self._cache_duration
cache_duration == 300

\* start_date_str of the pre-warm: the day the sync window starts, at 00:00.
start_date_str == 0

\* The configured destination context (self.project_id, self.workspace_id,
\* self.tags): the ids the unit tests configure, and two tags.
project_id == 123
workspace_id == 456
tags == <<"trakt", "test">>

\* An ISO-8601 time string: wall-clock seconds, sub-second part, zone offset
\* in seconds ("Z" is offset 0).
TS(wall, us, off) == [wall |-> wall, us |-> us, off |-> off]

\* A normalisation that keeps the sub-second part.
keep_timestamp(ts) == ts

\* datetime.fromisoformat(...).replace(microsecond=0): the sub-second part is
\* dropped, wall clock and zone are kept.
normalize_timestamp(ts) == [ts EXCEPT !.us = 0]

\* The instant a time string names.
Instant(ts) == ts.wall - ts.off

\* == on two aware datetimes: the same absolute instant.
DatetimeEq(a, b) == a.wall - a.off = b.wall - b.off /\ a.us = b.us

\* What a transport call can answer: 2xx, 402, another error status
\* (raise_for_status raises HTTPError for both), or no response at all
\* (requests raises an exception that is not an HTTPError).
Responses == {"ok", "quota", "http_error", "network_error"}

\* A list call sent with params = {}.
ListCall(resp) == [kind |-> "list", resp |-> resp, params |-> None]
CreateCall(resp) == [kind |-> "create", resp |-> resp]

\* A TTL test that already refetches at exactly cache_duration seconds.
CacheExpiredAtBoundary(t, ts) == t - ts >= cache_duration

\* now - self._cache_timestamp > self._cache_duration
CacheExpired(t, ts) == t - ts > cache_duration

\* A refetch condition that overlooks an invalidated cache.
NeedsFetchIgnoresInvalidation(st, t, force_refresh) ==
    \/ force_refresh
    \/ st.ts = None
    \/ CacheExpired(t, st.ts[1])

\* A refetch condition that never fetches while the rate-limit flag is set.
NeedsFetchUnlessLimited(st, t, force_refresh) ==
    /\ ~st.rl
    /\ \/ force_refresh
       \/ st.cached = None
       \/ st.ts = None
       \/ CacheExpired(t, st.ts[1])

\* The refetch condition of get_cached_entries.
NeedsFetch(st, t, force_refresh) ==
    \/ force_refresh
    \/ st.cached = None
    \/ st.ts = None
    \/ CacheExpired(t, st.ts[1])

\* The answers the list call of a get can receive: none is drawn when the get
\* is served from the cache.
ListResponses(st, t, force_refresh) ==
    IF NeedsFetch(st, t, force_refresh) THEN Responses ELSE {"ok"}

\* A successful fetch that leaves the rate-limit flag as it was.
FlagKeptAfterFetch(rl) == rl

\* self._rate_limited = False after a successful fetch.
FlagAfterFetch(rl) == FALSE

\* A warning printed for every quota-exceeded fetch.
WarnsAlways(rl) == TRUE

\* if not self._rate_limited: print the rate-limit warning.
Warns(rl) == ~rl

\* A 402 branch that also drops what is cached.
StateAfterQuotaDropsCache(st) ==
    [st EXCEPT !.rl = TRUE, !.cached = None, !.ts = None]

\* The 402 branch of get_cached_entries: the flag is set, nothing else is
\* assigned (the flag is assigned under `if not self._rate_limited`).
StateAfterQuota(st) == [st EXCEPT !.rl = TRUE]

\* What the list endpoint answers: every entry, or with a start_date the
\* entries that start on or after it (end_date is today: nothing is later).
TimeEntries(server, start_date) ==
    IF start_date = None THEN server
    ELSE LET FromStart(e) == Instant(e.start) >= start_date[1]
         IN  SelectSeq(server, FromStart)

\* get_cached_entries on client state st = [cached, ts, rl] at time t, the list
\* call (if one is made) answered by resp from a server holding `server`.
\* start_date is None or Some(date): params carries it when it is given.
get_cached_entries(st, t, start_date, force_refresh, resp, server) ==
    LET sent == <<[ListCall(resp) EXCEPT !.params = start_date]>>
    IN  IF ~NeedsFetch(st, t, force_refresh)
        THEN [st |-> st, ret |-> st.cached, calls |-> <<>>, raised |-> "none",
              warned |-> FALSE]
        ELSE CASE resp = "ok" ->
                    [st |-> [cached |-> Some(TimeEntries(server, start_date)),
                            ts |-> Some(t), rl |-> FlagAfterFetch(st.rl)],
                     ret |-> Some(TimeEntries(server, start_date)),
                     calls |-> sent, raised |-> "none", warned |-> FALSE]
               [] resp = "quota" ->
                    [st |-> StateAfterQuota(st),
                     ret |-> None, calls |-> sent,
                     raised |-> "none", warned |-> Warns(st.rl)]
               [] OTHER ->
                    [st |-> st, ret |-> None, calls |-> sent,
                     raised |-> resp, warned |-> FALSE]

\* A stop comparison that lets an entry without a stop pass.
StopMatchesOrOpen(entry_end, end_time) ==
    IF entry_end # None
    THEN DatetimeEq(entry_end[1], normalize_timestamp(end_time))
    ELSE TRUE

\* entry_end == self.normalize_timestamp(end_time) if entry_end else False
StopMatches(entry_end, end_time) ==
    IF entry_end # None
    THEN DatetimeEq(entry_end[1], normalize_timestamp(end_time))
    ELSE FALSE

\* The condition of the scan in entry_exists, for one cached entry.
EntryMatches(entry, description, start_time, end_time) ==
    LET entry_start == normalize_timestamp(entry.start)
        entry_end == IF entry.stop # None
                     THEN Some(normalize_timestamp(entry.stop[1]))
                     ELSE None
    IN  /\ entry.description = description
        /\ DatetimeEq(entry_start, normalize_timestamp(start_time))
        /\ StopMatches(entry_end, end_time)
        /\ entry.project_id = project_id
        /\ Range(entry.tags) = Range(tags)
        /\ entry.wid = workspace_id

\* An existence answer that lets creation go on when the cache is unavailable.
ExistsAnswerFailOpen(entries, triple) ==
    IF entries = None THEN FALSE
    ELSE \E i \in 1..Len(entries[1]) :
            EntryMatches(entries[1][i], triple.description, triple.start, triple.end)

\* What entry_exists answers from the value get_cached_entries returned.
ExistsAnswer(entries, triple) ==
    IF entries = None THEN TRUE
    ELSE \E i \in 1..Len(entries[1]) :
            EntryMatches(entries[1][i], triple.description, triple.start, triple.end)

\* entry_exists: the get, then the scan. exists is "true", "false", or "n/a"
\* when the get raised.
entry_exists(st, t, triple, resp, server) ==
    LET g == get_cached_entries(st, t, None, FALSE, resp, server)
    IN  [st |-> g.st, calls |-> g.calls, raised |-> g.raised, warned |-> g.warned,
         got |-> IF g.raised # "none" THEN "n/a"
                 ELSE IF g.ret = None THEN "sentinel" ELSE "list",
         exists |-> IF g.raised # "none" THEN "n/a"
                    ELSE IF ExistsAnswer(g.ret, triple) THEN "true" ELSE "false"]

\* The id the server gives the next entry.
NextEntryId(server) ==
    IF server = <<>> THEN 1
    ELSE 1 + CHOOSE n \in {server[i].id : i \in 1..Len(server)} :
                 \A i \in 1..Len(server) : server[i].id <= n

\* The entry the server stores for a successful create call.
NewEntry(server, triple) ==
    [id |-> NextEntryId(server), description |-> triple.description,
     start |-> triple.start, stop |-> Some(triple.end),
     project_id |-> project_id, tags |-> tags, wid |-> workspace_id]

\* A create that leaves the cached entries in place.
CacheKeptAfterCreate(cached) == cached

\* self._cached_entries = None after a successful create.
CacheAfterCreate(cached) == None

\* A skip decision that ignores the existence answer.
SkipsNever(exists) == FALSE

\* if self.entry_exists(...): ... return
Skips(exists) == exists = "true"

\* A handler that consumes the quota-exceeded error as well.
CreateRaisesNoQuota(cresp) ==
    IF cresp \in {"ok", "quota", "http_error"} THEN "none" ELSE cresp

\* A handler that re-raises every failed create call.
CreateRaisesAlways(cresp) == IF cresp = "ok" THEN "none" ELSE cresp

\* What leaves create_entry after the create call: 402 is re-raised, another
\* HTTPError is printed and consumed, an exception that is no HTTPError is
\* not caught.
CreateRaises(cresp) ==
    CASE cresp = "ok" -> "none"
      [] cresp = "quota" -> "quota"
      [] cresp = "http_error" -> "none"
      [] OTHER -> cresp

\* create_entry after an existence check that answered false: the create
\* call and its handling. base is what the check left.
post_entry(base, triple, cresp) ==
    LET posted == [base EXCEPT !.calls = Append(base.calls, CreateCall(cresp)),
                               !.raised = CreateRaises(cresp)]
    IN  CASE cresp = "ok" ->
                [posted EXCEPT !.st.cached = CacheAfterCreate(base.st.cached),
                               !.server = Append(base.server,
                                                 NewEntry(base.server, triple)),
                               !.outcome = "created"]
          [] cresp = "quota" ->
                [posted EXCEPT !.st.rl = TRUE, !.outcome = "quota"]
          [] cresp = "http_error" ->
                [posted EXCEPT !.outcome = "failed"]
          [] OTHER -> posted

\* create_entry: the existence check, then at most one create call.
create_entry(st, t, triple, lresp, cresp, server) ==
    LET x == entry_exists(st, t, triple, lresp, server)
        base == [st |-> x.st, server |-> server, calls |-> x.calls,
                 raised |-> x.raised, warned |-> x.warned, got |-> x.got,
                 exists |-> x.exists, outcome |-> "raised"]
    IN  IF x.raised # "none" THEN base
        ELSE IF Skips(x.exists)
        THEN [base EXCEPT !.outcome = IF x.st.rl THEN "skipped_rate_limited"
                                      ELSE "skipped_exists"]
        ELSE post_entry(base, triple, cresp)

(***************************************************************************)
(* Source events and their canonical triples: process_history_item         *)
(***************************************************************************)

\* The i-th fetched history item: episodes and movies in turn, watched one
\* hour apart from 14:00:00Z; every fourth item is a movie without a runtime.
Event(i) ==
    IF i % 2 = 1
    THEN [type |-> "episode", name |-> "Breaking Bad", season |-> 1, number |-> i,
          title |-> "Pilot", year |-> 0, runtime |-> Some(45),
          watched_at |-> TS(50400 + 3600 * i, 0, 0)]
    ELSE [type |-> "movie", name |-> "The Matrix", season |-> 0, number |-> 0,
          title |-> "", year |-> 1998 + i,
          runtime |-> IF i % 4 = 0 THEN None ELSE Some(120),
          watched_at |-> TS(50400 + 3600 * i, 0, 0)]

\* The description f-string, kept as its parts.
Description(item) ==
    [icon |-> item.type, name |-> item.name, season |-> item.season,
     number |-> item.number, title |-> item.title, year |-> item.year]

\* A default of one hour for a movie without a runtime.
RuntimeOrHour(item) == IF item.runtime = None THEN 60 ELSE item.runtime[1]

\* item["episode"]["runtime"], or item["movie"].get("runtime", 0).
Runtime(item) == IF item.runtime = None THEN 0 ELSE item.runtime[1]

\* The (description, start_time, end_time) process_history_item passes to
\* create_entry: end is watched_at, start is runtime minutes earlier.
CanonicalTriple(item) ==
    [description |-> Description(item),
     start |-> TS(item.watched_at.wall - 60 * Runtime(item), item.watched_at.us, 0),
     end |-> item.watched_at]

\* The triples a caller of the client passes in Spec: those of the first two
\* events.
Triples == {CanonicalTriple(Event(1)), CanonicalTriple(Event(2))}

\* Entries the destination may hold before the client acts: an open entry
\* (no stop) for the first triple, and an entry for the second triple whose
\* times the server renders in another zone (+01:00), with a sub-second part.
SeedOpen ==
    LET t == CanonicalTriple(Event(1))
    IN  [id |-> 1, description |-> t.description, start |-> t.start, stop |-> None,
         project_id |-> project_id, tags |-> tags, wid |-> workspace_id]

SeedZone ==
    LET t == CanonicalTriple(Event(2))
    IN  [id |-> 1, description |-> t.description,
         start |-> TS(t.start.wall + 3600, 1, 3600),
         stop |-> Some(TS(t.end.wall + 3600, 0, 3600)),
         project_id |-> project_id, tags |-> tags, wid |-> workspace_id]

\* An entry for the first triple as the server may render it: another zone
\* (-05:00), sub-second parts, the tags in another order and one repeated.
SeedReordered ==
    LET t == CanonicalTriple(Event(1))
    IN  [id |-> 1, description |-> t.description,
         start |-> TS(t.start.wall - 18000, 2, 0 - 18000),
         stop |-> Some(TS(t.end.wall - 18000, 3, 0 - 18000)),
         project_id |-> project_id, tags |-> <<"test", "trakt", "test">>,
         wid |-> workspace_id]

\* Entries that differ from the first triple's entry in exactly one of the
\* compared fields: description, start, stop (by one second), project,
\* workspace, and the tag set (one tag missing, one tag more).
SeedNearMisses ==
    LET t == CanonicalTriple(Event(1))
        e == [id |-> 0, description |-> t.description, start |-> t.start,
              stop |-> Some(t.end), project_id |-> project_id, tags |-> tags,
              wid |-> workspace_id]
    IN  << [e EXCEPT !.id = 1, !.description = Description(Event(3))],
           [e EXCEPT !.id = 2, !.start = TS(t.start.wall + 1, 0, 0)],
           [e EXCEPT !.id = 3, !.stop = Some(TS(t.end.wall + 1, 0, 0))],
           [e EXCEPT !.id = 4, !.project_id = project_id + 1],
           [e EXCEPT !.id = 5, !.wid = workspace_id + 1],
           [e EXCEPT !.id = 6, !.tags = <<"test">>],
           [e EXCEPT !.id = 7, !.tags = <<"trakt", "test", "other">>] >>

Seeds == {<<>>, <<SeedOpen>>, <<SeedZone>>, <<SeedReordered>>, SeedNearMisses}

(***************************************************************************)
(* The client's operations as actions                                      *)
(***************************************************************************)

Client == [cached |-> cached_entries, ts |-> cache_timestamp, rl |-> rate_limited]

NoOp ==
    [op |-> "none", triple |-> None, force |-> FALSE, pre |-> None, at |-> 0,
     calls |-> <<>>, got |-> "n/a", exists |-> "n/a", outcome |-> "n/a",
     raised |-> "none", warned |-> FALSE, warned_before |-> FALSE,
     had |-> FALSE, after_create |-> None]

HasCall(calls, kind) == \E i \in 1..Len(calls) : calls[i].kind = kind
CountCalls(calls, kind) == Cardinality({i \in 1..Len(calls) : calls[i].kind = kind})
AllAnsweredOk(calls) == \A i \in 1..Len(calls) : calls[i].resp = "ok"

\* Some server entry matches the triple in the configured context.
ServerHas(server, triple) ==
    \E i \in 1..Len(server) :
        EntryMatches(server[i], triple.description, triple.start, triple.end)

\* The effect of one client operation with result r on the state.
ClientApply(opname, triple, force, r) ==
    /\ cached_entries' = r.st.cached
    /\ cache_timestamp' = r.st.ts
    /\ rate_limited' = r.st.rl
    /\ toggl_entries' = r.server
    /\ lastOp' = [op |-> opname, triple |-> triple, force |-> force,
                  pre |-> Some(Client), at |-> now,
                  calls |-> r.calls, got |-> r.got, exists |-> r.exists,
                  outcome |-> r.outcome, raised |-> r.raised, warned |-> r.warned,
                  warned_before |-> lastOp.warned \/ lastOp.warned_before,
                  had |-> IF triple = None THEN FALSE
                          ELSE ServerHas(toggl_entries, triple[1]),
                  after_create |-> IF lastOp.outcome = "created"
                                   THEN lastOp.triple ELSE None]

\* A caller's get_cached_entries(force_refresh=...), without a start_date.
GetCachedEntries ==
    /\ \E force \in BOOLEAN :
       \E resp \in ListResponses(Client, now, force) :
          LET g == get_cached_entries(Client, now, None, force, resp, toggl_entries)
          IN  ClientApply("get", None, force,
                  [st |-> g.st, server |-> toggl_entries, calls |-> g.calls,
                   got |-> IF g.raised # "none" THEN "n/a"
                           ELSE IF g.ret = None THEN "sentinel" ELSE "list",
                   exists |-> "n/a", outcome |-> "n/a", raised |-> g.raised,
                   warned |-> g.warned])
    /\ UNCHANGED <<now, traktVars, runVars, dedupVars>>

\* A caller's entry_exists(description, start_time, end_time).
EntryExists ==
    /\ \E triple \in Triples, resp \in ListResponses(Client, now, FALSE) :
          LET x == entry_exists(Client, now, triple, resp, toggl_entries)
          IN  ClientApply("exists", Some(triple), FALSE,
                  [st |-> x.st, server |-> toggl_entries, calls |-> x.calls,
                   got |-> x.got, exists |-> x.exists, outcome |-> "n/a",
                   raised |-> x.raised, warned |-> x.warned])
    /\ UNCHANGED <<now, traktVars, runVars, dedupVars>>

\* A caller's create_entry(description, start_time, end_time).
CreateEntry ==
    /\ \E triple \in Triples, lresp \in ListResponses(Client, now, FALSE),
          cresp \in Responses :
          ClientApply("create", Some(triple), FALSE,
              create_entry(Client, now, triple, lresp, cresp, toggl_entries))
    /\ UNCHANGED <<now, traktVars, runVars, dedupVars>>

\* Time passes between two operations.
TickSteps == {cache_duration, cache_duration + 1}

Tick ==
    /\ \E d \in TickSteps : now + d <= MaxTime /\ now' = now + d
    /\ UNCHANGED <<toggl_entries, cached_entries, cache_timestamp, rate_limited,
                   lastOp, traktVars, runVars, dedupVars>>

(***************************************************************************)
(* Step 3 of main(): the loop over the fetched history                     *)
(***************************************************************************)

\* An executed step of main(): its name, the history item it handles (0 when
\* it handles none) and the network calls it issued.
Step(name, item, calls) == [step |-> name, item |-> item, calls |-> calls]

\* One iteration: process_history_item(item), and what main() does with an
\* exception that leaves it. An HTTPError ends the loop and is consumed (402
\* prints the two "rate limits" lines); the completion banner follows. Any
\* other exception is not caught and leaves main().
ProcessHistoryItem ==
    /\ pc = "sync"
    /\ idx <= Len(events)
    /\ \E lresp \in ListResponses(Client, now, FALSE), cresp \in Responses :
          LET triple == CanonicalTriple(events[idx])
              r == create_entry(Client, now, triple, lresp, cresp, toggl_entries)
          IN  /\ ClientApply("create", Some(triple), FALSE, r)
              /\ steps' = Append(steps, Step("create", idx, r.calls))
              /\ create_calls' = create_calls + CountCalls(r.calls, "create")
              /\ create_failed' = create_failed +
                                  (IF r.outcome = "failed" THEN 1 ELSE 0)
              /\ created' = created + (IF r.outcome = "created" THEN 1 ELSE 0)
              /\ CASE r.raised = "none" ->
                        /\ idx' = idx + 1
                        /\ UNCHANGED <<pc, runLog>>
                   [] r.raised = "quota" ->
                        /\ pc' = "done"
                        /\ runLog' = <<"Sync stopped due to rate limits.",
                                       "Run again later to sync remaining entries.",
                                       "Sync Complete">>
                        /\ UNCHANGED idx
                   [] r.raised = "http_error" ->
                        /\ pc' = "done"
                        /\ runLog' = <<"Sync Complete">>
                        /\ UNCHANGED idx
                   [] OTHER ->
                        /\ pc' = "crashed"
                        /\ UNCHANGED <<idx, runLog>>
    /\ UNCHANGED <<now, events, config, race, tokens, trakt_pages, fhLast,
                   traktVars, dedupVars>>

\* The caller's pre-warm before the first item:
\* get_cached_entries(start_date=start_date_str, force_refresh=True).
PreWarm ==
    /\ pc = "sync"
    /\ idx = 1
    /\ steps = <<>>
    /\ \E resp \in {"ok", "quota"} :
          LET g == get_cached_entries(Client, now, Some(start_date_str), TRUE,
                                      resp, toggl_entries)
          IN  /\ ClientApply("get", None, TRUE,
                     [st |-> g.st, server |-> toggl_entries, calls |-> g.calls,
                      got |-> IF g.ret = None THEN "sentinel" ELSE "list",
                      exists |-> "n/a", outcome |-> "n/a", raised |-> g.raised,
                      warned |-> g.warned])
              /\ steps' = Append(steps, Step("prewarm", 0, g.calls))
    /\ UNCHANGED <<now, pc, events, idx, create_calls, create_failed, created,
                   runLog, config, race, tokens, trakt_pages, fhLast,
                   traktVars, dedupVars>>

\* The loop has consumed every item: the completion banner.
SyncComplete ==
    /\ pc = "sync"
    /\ idx > Len(events)
    /\ pc' = "done"
    /\ runLog' = <<"Sync Complete">>
    /\ UNCHANGED <<idx, events, create_calls, create_failed, created,
                   mainVars, togglVars, traktVars, dedupVars>>

\* Time passes between two iterations.
RunTick ==
    /\ pc = "sync"
    /\ Tick

(***************************************************************************)
(* Destination deduplicator: TogglAPI.remove_duplicates                    *)
(***************************************************************************)

\* Bounds of the passes explored: entries on the server, and entries the
\* server returns for one list call.
MaxEntries == 4
PageLimit == 2

\* entry.get("description", "") of an entry without a description.
EmptyDescription ==
    [icon |-> "", name |-> "", season |-> 0, number |-> 0, title |-> "",
     year |-> 0]

\* timedelta(days=365), in seconds.
one_year == 365 * 86400

\* datetime.now() when the pass starts (a host on UTC), and the start of the
\* window the pass looks at.
today == one_year + 43200
one_year_ago == today - one_year

\* e.get("project_id") == self.project_id
InProject(e) == e.project_id = project_id

\* parse_time(e["start"]).replace(tzinfo=None) >= one_year_ago: the wall
\* clock of the start, its zone dropped.
InWindow(e) == e.start.wall >= one_year_ago

\* if desc:
HasDescription(e) == e.description # EmptyDescription

\* The sort key x.get("start", ""): the time string. Strings of one rendering
\* (same zone, no sub-second part) order as their wall clocks.
StartKey(e) == e.start.wall

\* The server's side of the "before" parameter: entries that start strictly
\* before the cursor, newest first, at most PageLimit of them.
Before(ts, cur) ==
    \/ Instant(ts) < cur.wall
    \/ Instant(ts) = cur.wall /\ ts.us < cur.us

Newer(a, b) ==
    \/ Instant(a.start) > Instant(b.start)
    \/ Instant(a.start) = Instant(b.start) /\ a.start.us > b.start.us
    \/ Instant(a.start) = Instant(b.start) /\ a.start.us = b.start.us /\ a.id > b.id

RECURSIVE NewestFirst(_, _)
NewestFirst(server, S) ==
    IF S = {} THEN <<>>
    ELSE LET m == CHOOSE i \in S : \A j \in S \ {i} : Newer(server[i], server[j])
         IN  <<server[m]>> \o NewestFirst(server, S \ {m})

ServerPage(server, cur) ==
    LET all == NewestFirst(server, {i \in 1..Len(server) : Before(server[i].start, cur)})
    IN  SubSeq(all, 1, IF Len(all) < PageLimit THEN Len(all) ELSE PageLimit)

\* min(batch, key=start) and the first step of a stable sort: the first of
\* the entries with the least key.
FirstMin(entries) ==
    CHOOSE i \in 1..Len(entries) :
        \A j \in 1..Len(entries) :
            /\ StartKey(entries[i]) <= StartKey(entries[j])
            /\ j < i => StartKey(entries[i]) < StartKey(entries[j])

\* datetime.now().strftime(...): the first cursor.
FirstCursor == [wall |-> today, us |-> 0]

\* A cursor at the oldest start itself.
CursorAtOldest(ts) == [wall |-> ts.wall, us |-> ts.us]

\* (parse_time(start) - timedelta(milliseconds=1)).strftime("...%fZ"): the
\* start's own wall clock, one millisecond earlier, labelled Z.
CursorBefore(ts) ==
    IF ts.us >= 1000
    THEN [wall |-> ts.wall, us |-> ts.us - 1000]
    ELSE [wall |-> ts.wall - 1, us |-> ts.us + 999000]

\* The answer to the n-th list call of a pass whose failAt-th list call
\* fails with `kind` (failAt = 0: every list call is answered 2xx).
ListAnswer(n, failAt, kind) == IF n = failAt THEN kind ELSE "ok"

\* The while True loop: the list calls made, the project's entries gathered,
\* and how the loop ended ("ok", or the failure of its last call).
RECURSIVE fetch_entries(_, _, _, _, _, _, _)
fetch_entries(server, cur, n, failAt, kind, all_entries, calls) ==
    LET resp == ListAnswer(n, failAt, kind)
        made == Append(calls, [kind |-> "list", resp |-> resp, before |-> cur])
        batch == ServerPage(server, cur)
        oldest_entry == batch[FirstMin(batch)]
        gathered == all_entries \o SelectSeq(batch, InProject)
    IN  IF resp # "ok"
        THEN [all_entries |-> all_entries, calls |-> made, ended |-> resp]
        ELSE IF batch = <<>>
        THEN [all_entries |-> all_entries, calls |-> made, ended |-> "ok"]
        ELSE IF oldest_entry.start.wall < one_year_ago
        THEN [all_entries |-> gathered, calls |-> made, ended |-> "ok"]
        ELSE fetch_entries(server, CursorBefore(oldest_entry.start), n + 1,
                           failAt, kind, gathered, made)

\* entries.sort(key=start): a stable sort, ascending.
RECURSIVE sort_by_start(_)
sort_by_start(entries) ==
    IF entries = <<>> THEN <<>>
    ELSE LET m == FirstMin(entries)
         IN  <<entries[m]>> \o
             sort_by_start(SubSeq(entries, 1, m - 1) \o
                           SubSeq(entries, m + 1, Len(entries)))

\* A choice that keeps the first entry of the sorted group instead.
AllButFirst(entries) == SubSeq(entries, 2, Len(entries))

\* entries_to_delete = entries[:-1]
AllButLast(entries) == SubSeq(entries, 1, Len(entries) - 1)

\* A grouping that takes entries without a description as well.
GroupedAlways(e) == TRUE

\* The entry is put in entries_by_description.
Grouped(e) == HasDescription(e)

\* The entries the delete loops visit, in their order: the groups in the
\* order their descriptions first appear, each sorted, all but its last.
RECURSIVE entries_to_delete(_, _)
entries_to_delete(filtered_entries, i) ==
    IF i > Len(filtered_entries) THEN <<>>
    ELSE LET e == filtered_entries[i]
             SameDescription(x) == x.description = e.description
             group == SelectSeq(filtered_entries, SameDescription)
             first_seen == \A j \in 1..(i - 1) : ~SameDescription(filtered_entries[j])
         IN  (IF Grouped(e) /\ first_seen /\ Len(group) > 1
              THEN AllButLast(sort_by_start(group))
              ELSE <<>>)
             \o entries_to_delete(filtered_entries, i + 1)

\* A delete loop that stops at the first delete that does not succeed.
DeleteGoesOnAfterSuccess(resp) == resp = "ok"

\* The delete loop goes on after every answered delete call, whatever the
\* status (there is no raise_for_status); only a call that gets no answer
\* raises.
DeleteGoesOn(resp) == resp # "network_error"

RemoveEntry(server, id) ==
    LET Other(x) == x.id # id IN SelectSeq(server, Other)

\* The delete loops over `todo`, the k-th call answered by resps[k].
RECURSIVE delete_entries(_, _, _, _)
delete_entries(todo, resps, k, acc) ==
    IF k > Len(todo) THEN acc
    ELSE LET resp == resps[k]
             after ==
                 [server |-> IF resp = "ok" THEN RemoveEntry(acc.server, todo[k].id)
                             ELSE acc.server,
                  calls |-> Append(acc.calls, [kind |-> "delete",
                                               id |-> todo[k].id, resp |-> resp]),
                  total_deleted |-> acc.total_deleted + (IF resp = "ok" THEN 1 ELSE 0),
                  raised |-> IF DeleteGoesOn(resp) THEN "none" ELSE resp]
         IN  IF DeleteGoesOn(resp)
             THEN delete_entries(todo, resps, k + 1, after)
             ELSE after

\* A pass that empties the cached list instead of dropping it.
CacheEmptiedAfterDedup(cached) == Some(<<>>)

\* A pass that leaves the cached list in place after its deletes.
CacheKeptAfterDedup(cached) == cached

\* self._cached_entries = None after the delete loops.
CacheAfterDedup(cached) == None

\* remove_duplicates on client state st and a server holding `server`.
remove_duplicates(st, server, failAt, kind, resps) ==
    LET f == fetch_entries(server, FirstCursor, 1, failAt, kind, <<>>, <<>>)
        filtered_entries == SelectSeq(f.all_entries, InWindow)
        todo == entries_to_delete(filtered_entries, 1)
        d == delete_entries(todo, resps, 1,
                 [server |-> server, calls |-> <<>>, total_deleted |-> 0,
                  raised |-> "none"])
        base == [st |-> st, server |-> server, list_calls |-> f.calls,
                 all_entries |-> f.all_entries, fetched |-> <<>>, planned |-> <<>>, delete_calls |-> <<>>,
                 total_deleted |-> 0, reported |-> None, raised |-> "none",
                 outcome |-> "skipped_rate_limited"]
        scanned == [base EXCEPT !.fetched = filtered_entries, !.planned = todo]
        deleted == [scanned EXCEPT !.server = d.server, !.delete_calls = d.calls,
                                   !.total_deleted = d.total_deleted]
    IN  CASE f.ended = "quota" -> base
          [] f.ended \in {"http_error", "network_error"} ->
                [base EXCEPT !.raised = f.ended, !.outcome = "raised"]
          [] todo = <<>> -> [scanned EXCEPT !.outcome = "clean"]
          [] d.raised # "none" ->
                [deleted EXCEPT !.raised = d.raised, !.outcome = "raised"]
          [] OTHER ->
                [deleted EXCEPT !.st.cached = CacheAfterDedup(st.cached),
                                !.reported = Some(d.total_deleted),
                                !.outcome = "removed"]

\* The list calls and delete calls of a pass in which every list call is
\* answered 2xx: what there is to answer.
dedup_plan(server) ==
    LET f == fetch_entries(server, FirstCursor, 1, 0, "ok", <<>>, <<>>)
    IN  [list_calls |-> f.calls,
         planned |-> entries_to_delete(SelectSeq(f.all_entries, InWindow), 1)]

TgNoPass ==
    [n |-> 0, outcome |-> "none", pre |-> None, pre_server |-> <<>>,
     list_calls |-> <<>>, all_entries |-> <<>>, fetched |-> <<>>, planned |-> <<>>,
     delete_calls |-> <<>>, total_deleted |-> 0, reported |-> None,
     raised |-> "none", cached_after |-> None]

\* One pass, its list calls and delete calls answered as drawn.
DedupApply(r) ==
    /\ toggl_entries' = r.server
    /\ cached_entries' = r.st.cached
    /\ cache_timestamp' = r.st.ts
    /\ rate_limited' = r.st.rl
    /\ tgLast' = [n |-> tgLast.n + 1, outcome |-> r.outcome, pre |-> Some(Client),
                  pre_server |-> toggl_entries, list_calls |-> r.list_calls,
                  all_entries |-> r.all_entries,
                  fetched |-> r.fetched, planned |-> r.planned,
                  delete_calls |-> r.delete_calls,
                  total_deleted |-> r.total_deleted, reported |-> r.reported,
                  raised |-> r.raised, cached_after |-> r.st.cached]

TogglPass ==
    LET plan == dedup_plan(toggl_entries)
    IN  \/ \E failAt \in 1..Len(plan.list_calls), kind \in Responses \ {"ok"} :
              DedupApply(remove_duplicates(Client, toggl_entries, failAt, kind, <<>>))
        \/ \E resps \in [1..Len(plan.planned) -> Responses] :
              DedupApply(remove_duplicates(Client, toggl_entries, 0, "ok", resps))

\* A caller's remove_duplicates().
TogglRemoveDuplicates ==
    /\ tgLast.n = 0
    /\ TogglPass
    /\ UNCHANGED <<now, lastOp, traktVars, runVars>>

\* A caller that gets the entries before the pass (the list call answered
\* 2xx: the cache is filled; or quota-exceeded: the flag is set), and one that
\* checks for an entry after it.
DedupWarm ==
    /\ tgLast.n = 0
    /\ lastOp.op = "none"
    /\ \E resp \in {"ok", "quota"} :
          LET g == get_cached_entries(Client, now, None, FALSE, resp, toggl_entries)
          IN  ClientApply("get", None, FALSE,
                  [st |-> g.st, server |-> toggl_entries, calls |-> g.calls,
                   got |-> IF g.ret = None THEN "sentinel" ELSE "list",
                   exists |-> "n/a", outcome |-> "n/a",
                   raised |-> g.raised, warned |-> g.warned])
    /\ UNCHANGED <<now, traktVars, runVars, dedupVars>>

DedupCheck ==
    /\ tgLast.n > 0
    /\ lastOp.op \notin {"exists", "create"}
    /\ EntryExists

\* A caller that creates an entry after the pass, the list call of its
\* existence check answered 2xx.
DedupCreate ==
    /\ tgLast.n > 0
    /\ lastOp.op \notin {"exists", "create"}
    /\ \E triple \in Triples, cresp \in Responses :
          ClientApply("create", Some(triple), FALSE,
              create_entry(Client, now, triple, "ok", cresp, toggl_entries))
    /\ UNCHANGED <<now, traktVars, runVars, dedupVars>>

\* Entries the destination may hold before a pass: the first triple's entry
\* and a later one with its description, the same for the second triple, an
\* entry without a description, one in another project, and one that starts
\* before the window.
EntryOf(triple, shift) ==
    [id |-> 0, description |-> triple.description,
     start |-> TS(triple.start.wall + shift, 0, 0),
     stop |-> Some(TS(triple.end.wall + shift, 0, 0)),
     project_id |-> project_id, tags |-> tags, wid |-> workspace_id]

DedupPool ==
    LET t1 == CanonicalTriple(Event(1))
        t2 == CanonicalTriple(Event(2))
    IN  << EntryOf(t1, 0),
           EntryOf(t1, 3600),
           EntryOf(t2, 0),
           EntryOf(t2, 3600),
           [EntryOf(t1, 0) EXCEPT !.description = EmptyDescription],
           [EntryOf(t1, 3600) EXCEPT !.project_id = project_id + 1],
           EntryOf(t1, 0 - 10800) >>

\* The server's list for a choice f of pool entries; ids follow the position.
ServerOf(f) == [i \in DOMAIN f |-> [DedupPool[f[i]] EXCEPT !.id = i]]

(***************************************************************************)
(* Source paginator: TraktAPI.fetch_history and fetch_full_history         *)
(***************************************************************************)

\* Bounds of the fetches explored: pages the server holds for the window, and
\* items on one page.
MaxPages == 4
MaxPageSize == 2

\* response.json() for params {"page": page}: the server's page, and an empty
\* list for every page behind the last one it holds.
PageAnswer(pages, page) ==
    IF page \in 1..Len(pages) THEN pages[page] ELSE <<>>

\* page = 1
FirstPage == 1

\* if not data: break
StopsOnShortPage(data) == Len(data) < MaxPageSize
StopsOn(data) == data = <<>>

\* The answers raise_for_status() raises on, and the exceptions of requests.get.
FetchFailures == {"http_error", "network_error"}

\* The while loop from the given page on. failAt is the page whose request is
\* answered by the failure `kind` (0: none fails).
RECURSIVE fetch_pages(_, _, _, _, _, _)
fetch_pages(pages, page, failAt, kind, fetched, calls) ==
    LET data == PageAnswer(pages, page)
        call == [kind |-> "history", page |-> page,
                 resp |-> IF page = failAt THEN kind ELSE "ok",
                 data |-> IF page = failAt THEN <<>> ELSE data]
    IN  IF page = failAt
        THEN [fetched |-> fetched, calls |-> Append(calls, call),
              raised |-> kind, returned |-> None]
        ELSE IF StopsOn(data)
        THEN [fetched |-> fetched, calls |-> Append(calls, call),
              raised |-> "none", returned |-> Some(fetched)]
        ELSE fetch_pages(pages, page + 1, failAt, kind, fetched \o data,
                         Append(calls, call))

\* TraktAPI.fetch_history(access_token, start_date); fetch_full_history is the
\* same loop without start_at.
fetch_history(pages, failAt, kind) ==
    fetch_pages(pages, FirstPage, failAt, kind, <<>>, <<>>)

\* The requests of a fetch in which no request fails.
fetch_plan(pages) == fetch_history(pages, 0, "ok").calls

FhNone == [fetched |-> <<>>, calls |-> <<>>, raised |-> "none", returned |-> None]

\* A caller's fetch_history, every request answered 2xx.
TraktFetchHistory ==
    /\ fhLast = FhNone
    /\ fhLast' = fetch_history(trakt_pages, 0, "ok")
    /\ UNCHANGED <<trakt_pages, config, race, tokens, steps, pc, events, idx,
                   create_calls, create_failed, created, runLog,
                   traktVars, togglVars, dedupVars>>

\* A caller's fetch_history, one of its requests failing.
TraktFetchHistoryFails ==
    /\ fhLast = FhNone
    /\ \E failAt \in 1..Len(fetch_plan(trakt_pages)), kind \in FetchFailures :
          fhLast' = fetch_history(trakt_pages, failAt, kind)
    /\ UNCHANGED <<trakt_pages, config, race, tokens, steps, pc, events, idx,
                   create_calls, create_failed, created, runLog,
                   traktVars, togglVars, dedupVars>>

\* The items of a window: the first `before` items lie on earlier pages.
RECURSIVE SizesSum(_, _)
SizesSum(sizes, k) == IF k = 0 THEN 0 ELSE sizes[k] + SizesSum(sizes, k - 1)

\* The server's pages for a choice of page sizes, its items numbered in order.
PagesOf(sizes) ==
    [k \in DOMAIN sizes |->
        [j \in 1..sizes[k] |-> Event(SizesSum(sizes, k - 1) + j)]]

(***************************************************************************)
(* The sync run: main() (sync.py)                                          *)
(***************************************************************************)

\* Bounds of the runs explored: events in the trailing window, and polls of
\* the device flow.
MaxRunEvents == 2
MaxPolls == 2

required_env_vars ==
    {"TRAKT_CLIENT_ID", "TRAKT_CLIENT_SECRET", "TOGGL_API_TOKEN",
     "TOGGL_WORKSPACE_ID", "TOGGL_PROJECT_ID"}

\* check_required_env_variables(): sys.exit(1) when a variable is missing.
ExitsNever(missing_vars) == FALSE
Exits(missing_vars) == missing_vars # {}

TRAKT_TOKEN_EXPIRATION_BUFFER_MINUTES == 60

\* expires_at of a token file that is near its expiry when the run starts at
\* 0, and of one that is not.
NearExpiry == 60 * TRAKT_TOKEN_EXPIRATION_BUFFER_MINUTES
FarExpiry == NearExpiry + 1

\* tokens["expires_in"] of a token the server issues.
expires_in == 90 * 86400

\* An expiry test that is still false exactly at the start of the buffer.
NearOnlyInsideBuffer(expiration_time, t) ==
    t > expiration_time - 60 * TRAKT_TOKEN_EXPIRATION_BUFFER_MINUTES

\* now >= expiration - timedelta(minutes=TRAKT_TOKEN_EXPIRATION_BUFFER_MINUTES)
is_token_near_expiration(expiration_time, t) ==
    t >= expiration_time - 60 * TRAKT_TOKEN_EXPIRATION_BUFFER_MINUTES

\* The polls of one device flow. The device/token endpoint answers a poll
\* with 200, with a status that means "not yet" (400, 404, 410, 418, 429), or
\* with any other status; the flow polls until an answer that is not "not yet".
PollRuns ==
    {p \in UNION {[1..n -> {"200", "pending", "other"}] : n \in 1..MaxPolls} :
        /\ p[Len(p)] # "pending"
        /\ \A k \in 1..(Len(p) - 1) : p[k] = "pending"}

\* The polling loop of authenticate(), from poll k on.
RECURSIVE poll_token(_, _, _, _)
poll_token(polls, k, t, calls) ==
    LET sent == Append(calls, [kind |-> "device_token", resp |-> polls[k]])
    IN  CASE polls[k] = "200" ->
                [tokens |-> Some([expires_at |-> t + expires_in]),
                 calls |-> sent, raised |-> "none"]
          [] polls[k] = "pending" -> poll_token(polls, k + 1, t, sent)
          [] OTHER ->
                [tokens |-> None, calls |-> sent, raised |-> "RuntimeError"]

\* TraktAPI.authenticate(): the device code request, then the polls.
authenticate(code, polls, t, calls) ==
    LET sent == Append(calls, [kind |-> "device_code", resp |-> code])
    IN  IF code # "ok"
        THEN [tokens |-> None, calls |-> sent, raised |-> code]
        ELSE poll_token(polls, 1, t, sent)

\* TraktAPI.refresh_token(refresh_token): a 400 removes the token file and
\* authenticates anew, any other failure leaves the function.
refresh_token(resp, code, polls, t) ==
    LET sent == <<[kind |-> "refresh_token", resp |-> resp]>>
    IN  CASE resp = "ok" ->
                [tokens |-> Some([expires_at |-> t + expires_in]),
                 calls |-> sent, raised |-> "none"]
          [] resp = "400" -> authenticate(code, polls, t, sent)
          [] OTHER -> [tokens |-> None, calls |-> sent, raised |-> resp]

\* The step main() runs after the one named.
StepAfterDestinationFirst(name) ==
    CASE name = "check_env" -> "auth"
      [] name = "auth" -> "toggl_dedup"
      [] name = "toggl_dedup" -> "trakt_dedup"
      [] name = "trakt_dedup" -> "fetch_history"
      [] name = "fetch_history" -> "sync"

StepAfter(name) ==
    CASE name = "check_env" -> "auth"
      [] name = "auth" -> "trakt_dedup"
      [] name = "trakt_dedup" -> "toggl_dedup"
      [] name = "toggl_dedup" -> "fetch_history"
      [] name = "fetch_history" -> "sync"

\* A run that goes on after a step that raised.
AfterStepGoesOn(name, raised) == StepAfter(name)

\* Where main() stands after a step that raised or returned.
AfterStep(name, raised) == IF raised THEN "crashed" ELSE StepAfter(name)

\* check_required_env_variables()
MainCheckEnv ==
    /\ pc = "check_env"
    /\ steps' = Append(steps, Step("check_env", 0, <<>>))
    /\ pc' = IF Exits(config) THEN "exit_1" ELSE StepAfter("check_env")
    /\ UNCHANGED <<config, race, tokens, trakt_pages, fhLast, events, idx,
                   create_calls, create_failed, created, runLog,
                   traktVars, togglVars, dedupVars>>

\* tokens = load_json_file(...); authenticate() without a token file,
\* refresh_token() with one that is near its expiry.
MainAuth ==
    /\ pc = "auth"
    /\ \E resp \in {"ok", "400", "http_error", "network_error"},
          code \in {"ok"} \cup FetchFailures,
          polls \in PollRuns :
          LET r == CASE tokens = None -> authenticate(code, polls, now, <<>>)
                     [] is_token_near_expiration(tokens[1].expires_at, now) ->
                            refresh_token(resp, code, polls, now)
                     [] OTHER ->
                            [tokens |-> tokens, calls |-> <<>>, raised |-> "none"]
          IN  /\ tokens' = r.tokens
              /\ steps' = Append(steps, Step("auth", 0, r.calls))
              /\ pc' = AfterStep("auth", r.raised # "none")
    /\ UNCHANGED <<config, race, trakt_pages, fhLast, events, idx,
                   create_calls, create_failed, created, runLog,
                   traktVars, togglVars, dedupVars>>

\* Step 1: TraktAPI.remove_duplicates(tokens["access_token"])
MainTraktDedup ==
    /\ pc = "trakt_dedup"
    /\ TraktPassFetchFails \/ TraktPassNothing \/ TraktPassRemove
    /\ tkPasses' = tkPasses + 1
    /\ steps' = Append(steps, Step("trakt_dedup", 0, <<>>))
    /\ pc' = AfterStep("trakt_dedup", tkLast'.outcome = "raised")
    /\ UNCHANGED <<config, race, tokens, trakt_pages, fhLast, events, idx,
                   create_calls, create_failed, created, runLog,
                   togglVars, dedupVars>>

\* Step 2: TogglAPI.remove_duplicates()
MainTogglDedup ==
    /\ pc = "toggl_dedup"
    /\ TogglPass
    /\ steps' = Append(steps, Step("toggl_dedup", 0, <<>>))
    /\ pc' = AfterStep("toggl_dedup", tgLast'.outcome = "raised")
    /\ UNCHANGED <<config, race, tokens, trakt_pages, fhLast, events, idx,
                   create_calls, create_failed, created, runLog,
                   now, lastOp, traktVars>>

\* Step 3, first half: history = TraktAPI.fetch_history(access_token, start_date)
MainFetchHistory ==
    /\ pc = "fetch_history"
    /\ \E failAt \in 0..Len(fetch_plan(trakt_pages)), kind \in FetchFailures :
          LET r == fetch_history(trakt_pages, failAt, kind)
          IN  /\ fhLast' = r
              /\ events' = IF r.raised = "none" THEN r.fetched ELSE <<>>
              /\ steps' = Append(steps, Step("fetch_history", 0, <<>>))
              /\ pc' = AfterStep("fetch_history", r.raised # "none")
    /\ UNCHANGED <<config, race, tokens, trakt_pages, idx,
                   create_calls, create_failed, created, runLog,
                   traktVars, togglVars, dedupVars>>

\* The server's pages for a window of n events, full pages first.
PagesFor(n) ==
    PagesOf([k \in 1..((n + MaxPageSize - 1) \div MaxPageSize) |->
                IF k * MaxPageSize <= n THEN MaxPageSize
                ELSE n - (k - 1) * MaxPageSize])

\* A history in which one play is listed three times, and a destination that
\* holds the first event's entry once or twice (times rendered in UTC).
MainHistories ==
    {<<>>,
     << [id |-> 1, type |-> "movie", trakt |-> PresentTraktId, watched_at |-> 1],
        [id |-> 2, type |-> "movie", trakt |-> PresentTraktId, watched_at |-> 1],
        [id |-> 3, type |-> "movie", trakt |-> PresentTraktId, watched_at |-> 2] >>}

SeedTwice ==
    LET t == CanonicalTriple(Event(1))
        e == [id |-> 1, description |-> t.description, start |-> t.start,
              stop |-> Some(t.end), project_id |-> project_id, tags |-> tags,
              wid |-> workspace_id]
    IN  <<e, [e EXCEPT !.id = 2]>>

(***************************************************************************)
(* Two loops of main() over one client state                               *)
(***************************************************************************)

\* The class attributes of TogglAPI are shared by every caller in the
\* process. Two loops of main() over the same fetched events are interleaved
\* at their network calls: the list call of the existence check and the
\* create call are the points where the other loop may run.

NoRace == [runs |-> <<>>, overlapped |-> FALSE]

\* A loop that has taken a step and has not returned.
InProgress(r) == race.runs[r].started /\ race.runs[r].at # "done"

\* Where loop r stands after the item it was handling; ended: an exception
\* left the loop.
RaceMove(r, at, ended, issued) ==
    LET me == race.runs[r]
        next == IF at = "post" THEN me.idx ELSE me.idx + 1
    IN  race' = [runs |-> [race.runs EXCEPT ![r] =
                     [at |-> IF ended \/ next > Len(events) THEN "done" ELSE at,
                      idx |-> next, started |-> TRUE,
                      posted |-> me.posted \cup issued]],
                 overlapped |-> race.overlapped \/ InProgress(3 - r)]

\* create_entry of loop r up to the answer of entry_exists.
RaceCheck ==
    /\ \E r \in DOMAIN race.runs :
          /\ race.runs[r].at = "check"
          /\ \E lresp \in ListResponses(Client, now, FALSE) :
                LET triple == CanonicalTriple(events[race.runs[r].idx])
                    x == entry_exists(Client, now, triple, lresp, toggl_entries)
                IN  /\ ClientApply("exists", Some(triple), FALSE,
                          [st |-> x.st, server |-> toggl_entries, calls |-> x.calls,
                           got |-> x.got, exists |-> x.exists, outcome |-> "n/a",
                           raised |-> x.raised, warned |-> x.warned])
                    /\ RaceMove(r, IF x.raised = "none" /\ ~Skips(x.exists)
                                   THEN "post" ELSE "check",
                                x.raised # "none", {})
    /\ UNCHANGED <<now, config, tokens, steps, trakt_pages, fhLast, pc, events,
                   idx, create_calls, create_failed, created, runLog,
                   traktVars, dedupVars>>

\* create_entry of loop r from the create call on.
RacePost ==
    /\ \E r \in DOMAIN race.runs :
          /\ race.runs[r].at = "post"
          /\ \E cresp \in Responses :
                LET triple == CanonicalTriple(events[race.runs[r].idx])
                    p == post_entry(
                             [st |-> Client, server |-> toggl_entries,
                              calls |-> <<>>, raised |-> "none", warned |-> FALSE,
                              got |-> "n/a", exists |-> "false",
                              outcome |-> "raised"], triple, cresp)
                IN  /\ ClientApply("create", Some(triple), FALSE, p)
                    /\ RaceMove(r, "check", p.raised # "none", {race.runs[r].idx})
    /\ UNCHANGED <<now, config, tokens, steps, trakt_pages, fhLast, pc, events,
                   idx, create_calls, create_failed, created, runLog,
                   traktVars, dedupVars>>

(***************************************************************************)
(* Specifications                                                          *)
(***************************************************************************)

TraktIdle == history = <<>> /\ tkLast = TkNoPass /\ tkPasses = 0

DedupIdle == tgLast = TgNoPass

\* A fresh client: TogglAPI.__init__ (the class attributes of sync.py).
ClientInit ==
    /\ cached_entries = None
    /\ cache_timestamp = None
    /\ rate_limited = FALSE
    /\ now = 0
    /\ lastOp = NoOp

\* Every required variable set, a token file that is not near its expiry,
\* and nothing done yet.
MainIdle ==
    /\ config = {} /\ tokens = Some([expires_at |-> FarExpiry])
    /\ steps = <<>> /\ trakt_pages = <<>> /\ fhLast = FhNone
    /\ race = NoRace

RunIdle ==
    /\ pc = "idle" /\ events = <<>> /\ idx = 1 /\ runLog = <<>>
    /\ create_calls = 0 /\ create_failed = 0 /\ created = 0
    /\ MainIdle

Init ==
    /\ ClientInit
    /\ toggl_entries \in Seeds
    /\ TraktIdle
    /\ RunIdle
    /\ DedupIdle

Next == GetCachedEntries \/ EntryExists \/ CreateEntry \/ Tick

Spec == Init /\ [][Next]_vars

InitTrakt ==
    /\ TraktInit
    /\ ClientInit
    /\ toggl_entries = <<>>
    /\ RunIdle
    /\ DedupIdle

NextTrakt ==
    TraktWatch \/ TraktDedupFetchFails \/ TraktDedupNothing \/ TraktDedupRemove

SpecTrakt == InitTrakt /\ [][NextTrakt]_vars

\* The destination before the loop: empty, or holding the second event's entry.
RunSeeds == {<<>>, <<SeedZone>>}

InitRun ==
    /\ ClientInit
    /\ toggl_entries \in RunSeeds
    /\ TraktIdle
    /\ pc = "sync"
    /\ \E n \in 0..MaxEvents : events = [i \in 1..n |-> Event(i)]
    /\ idx = 1
    /\ runLog = <<>>
    /\ create_calls = 0 /\ create_failed = 0 /\ created = 0
    /\ MainIdle
    /\ DedupIdle

NextRun == PreWarm \/ ProcessHistoryItem \/ SyncComplete \/ RunTick

SpecRun == InitRun /\ [][NextRun]_vars

\* The destination before a pass: up to MaxEntries entries of the pool.
InitDedup ==
    /\ ClientInit
    /\ \E n \in 0..MaxEntries :
          \E f \in [1..n -> 1..Len(DedupPool)] :
              /\ \A i \in 1..(n - 1) : f[i] <= f[i + 1]
              /\ toggl_entries = ServerOf(f)
    /\ TraktIdle
    /\ RunIdle
    /\ DedupIdle

NextDedup == TogglRemoveDuplicates \/ DedupWarm \/ DedupCheck \/ DedupCreate

SpecDedup == InitDedup /\ [][NextDedup]_vars

\* The window's pages before a fetch: up to MaxPages pages of up to
\* MaxPageSize items each, an empty page possibly followed by more items.
InitFetch ==
    /\ ClientInit
    /\ toggl_entries = <<>>
    /\ TraktIdle
    /\ pc = "idle" /\ events = <<>> /\ idx = 1 /\ runLog = <<>>
    /\ create_calls = 0 /\ create_failed = 0 /\ created = 0
    /\ config = {} /\ tokens = Some([expires_at |-> FarExpiry]) /\ steps = <<>>
    /\ \E n \in 0..MaxPages :
          \E sizes \in [1..n -> 0..MaxPageSize] : trakt_pages = PagesOf(sizes)
    /\ fhLast = FhNone /\ race = NoRace
    /\ DedupIdle

NextFetch == TraktFetchHistory \/ TraktFetchHistoryFails

SpecFetch == InitFetch /\ [][NextFetch]_vars

\* A run about to start: the environment, the token file, the two services.
InitMain ==
    /\ ClientInit
    /\ toggl_entries \in {<<>>, <<SeedTwice[1]>>, SeedTwice}
    /\ history \in MainHistories /\ tkLast = TkNoPass /\ tkPasses = 0
    /\ pc = "check_env" /\ events = <<>> /\ idx = 1 /\ runLog = <<>>
    /\ create_calls = 0 /\ create_failed = 0 /\ created = 0
    /\ config \in {{}, {"TOGGL_PROJECT_ID"}, required_env_vars}
    /\ tokens \in {None, Some([expires_at |-> NearExpiry]),
                   Some([expires_at |-> FarExpiry])}
    /\ steps = <<>>
    /\ \E n \in 0..MaxRunEvents : trakt_pages = PagesFor(n)
    /\ fhLast = FhNone /\ race = NoRace
    /\ DedupIdle

NextMain ==
    \/ MainCheckEnv \/ MainAuth \/ MainTraktDedup \/ MainTogglDedup
    \/ MainFetchHistory \/ ProcessHistoryItem \/ SyncComplete \/ RunTick

SpecMain == InitMain /\ [][NextMain]_vars

\* Two loops about to process the same events against an empty destination.
InitRace ==
    /\ ClientInit
    /\ toggl_entries = <<>>
    /\ TraktIdle
    /\ pc = "idle" /\ idx = 1 /\ runLog = <<>>
    /\ create_calls = 0 /\ create_failed = 0 /\ created = 0
    /\ config = {} /\ tokens = Some([expires_at |-> FarExpiry])
    /\ steps = <<>> /\ trakt_pages = <<>> /\ fhLast = FhNone
    /\ \E n \in 1..MaxRunEvents : events = [i \in 1..n |-> Event(i)]
    /\ race = [runs |-> [r \in 1..2 |-> [at |-> "check", idx |-> 1,
                                         started |-> FALSE, posted |-> {}]],
               overlapped |-> FALSE]
    /\ DedupIdle

NextRace == RaceCheck \/ RacePost

SpecRace == InitRace /\ [][NextRace]_vars

(***************************************************************************)
(* Properties of the source deduplicator (checked under SpecTrakt)         *)
(***************************************************************************)

TkScanned == tkLast.outcome \in {"clean", "removed", "failed"}

HasIdentity(entry) == entry.trakt # NoIdentity

\* The record is in the duplicate set sent for removal.
InRemoveCall(entry) == entry.id \in Range(tkLast.payload)

\* Positions of the fetched history holding the key of position i, and those
\* among them with the greatest watched-at.
SameKey(h, i) == {j \in 1..Len(h) : ItemKey(h[j]) = ItemKey(h[i])}
Latest(h, i) == {j \in SameKey(h, i) :
                    \A l \in SameKey(h, i) : h[l].watched_at <= h[j].watched_at}
FirstOf(S) == CHOOSE j \in S : \A l \in S : j <= l
LastOf(S) == CHOOSE j \in S : \A l \in S : l <= j

\* C1: no id of a fetched record without an identity (missing trakt id) is
\* carried by the bulk-remove call.
C1_NoIdentityNeverRemoved ==
    \A i \in 1..Len(tkLast.fetched) :
        ~HasIdentity(tkLast.fetched[i]) => ~InRemoveCall(tkLast.fetched[i])

\* C2 as stated: of the records sharing a (kind, identity), the survivor is
\* the one with the greatest watched-at, the later-scanned one on a tie; every
\* other record of the key is in the duplicate set.
C2_LaterScannedSurvivesTie ==
    TkScanned =>
        \A i \in 1..Len(tkLast.fetched) :
            LET h == tkLast.fetched
            IN  HasIdentity(h[i]) =>
                    (~InRemoveCall(h[i]) <=> h[i] = h[LastOf(Latest(h, i))])

\* C2 as amended: of the records sharing a (kind, identity), the survivor is
\* the one with the greatest watched-at, the first-scanned one on a tie; every
\* other record of the key is in the duplicate set.
C2_FirstScannedSurvivesTie ==
    TkScanned =>
        \A i \in 1..Len(tkLast.fetched) :
            LET h == tkLast.fetched
            IN  HasIdentity(h[i]) =>
                    (~InRemoveCall(h[i]) <=> h[i] = h[FirstOf(Latest(h, i))])

\* A pass over a history in which two different records of one key tie for
\* the greatest watched-at, and a third, older record of the key is dropped.
C2_Witness ==
    /\ TkScanned
    /\ \E i, j, l \in 1..Len(tkLast.fetched) :
          LET h == tkLast.fetched
          IN  /\ i < j /\ HasIdentity(h[i]) /\ h[i] # h[j]
              /\ {i, j} \subseteq Latest(h, i)
              /\ l \in SameKey(h, i) \ Latest(h, i)
              /\ ~InRemoveCall(h[i]) /\ InRemoveCall(h[j]) /\ InRemoveCall(h[l])

\* C3: after a pass whose bulk remove succeeded (or that found nothing), the
\* history holds no duplicate, and the pass that follows finds none and issues
\* no remove call.
C3_DedupIdempotent ==
    /\ tkLast.outcome \in {"clean", "removed"} => duplicates(history) = <<>>
    /\ (TkScanned /\ tkLast.prev \in {"clean", "removed"}) =>
           /\ tkLast.dups = <<>>
           /\ tkLast.calls = 0
           /\ tkLast.outcome = "clean"
           /\ history = tkLast.fetched

\* A second pass right after a pass that removed duplicates.
C3_Witness ==
    /\ tkPasses = 2
    /\ tkLast.prev = "removed"
    /\ tkLast.outcome = "clean"
    /\ tkLast.fetched # <<>>

(***************************************************************************)
(* Properties of the destination client (checked under Spec)               *)
(***************************************************************************)

IsCheck == lastOp.op \in {"exists", "create"}
Pre == lastOp.pre[1]
CreateCallsOfOp == CountCalls(lastOp.calls, "create")
ListCallsOfOp == CountCalls(lastOp.calls, "list")
MatchesOnServer(triple) ==
    Cardinality({i \in 1..Len(toggl_entries) :
        EntryMatches(toggl_entries[i], triple.description, triple.start, triple.end)})

C5_DuplicatePrevention ==
    /\ \A triple \in Triples : MatchesOnServer(triple) <= 1
    /\ (lastOp.op = "create" /\ lastOp.had) =>
           /\ CreateCallsOfOp = 0
           /\ lastOp.raised = "none" =>
                  lastOp.outcome \in {"skipped_exists", "skipped_rate_limited"}
    /\ (lastOp.op = "create" /\ ~lastOp.had /\ AllAnsweredOk(lastOp.calls)) =>
           /\ CreateCallsOfOp = 1
           /\ lastOp.outcome = "created"
           /\ MatchesOnServer(lastOp.triple[1]) = 1

\* A second create of the triple just created, skipped as existing.
C5_Witness ==
    /\ lastOp.op = "create"
    /\ lastOp.after_create = lastOp.triple
    /\ lastOp.had
    /\ lastOp.outcome = "skipped_exists"
    /\ MatchesOnServer(lastOp.triple[1]) = 1

\* C6: create issues no create call when its existence check returned true
\* and exactly one when it returned false; a create call is only ever issued
\* by a create operation, as its last call, after that operation's own
\* existence check returned false, with at most the check's list fetch before
\* it.
C6_OneCreatePerCheck ==
    /\ lastOp.op # "create" => CreateCallsOfOp = 0
    /\ lastOp.op = "create" =>
           /\ lastOp.exists = "true" => CreateCallsOfOp = 0
           /\ lastOp.exists = "n/a" => CreateCallsOfOp = 0
           /\ lastOp.exists = "false" =>
                  /\ CreateCallsOfOp = 1
                  /\ lastOp.calls[Len(lastOp.calls)].kind = "create"
                  /\ Len(lastOp.calls) = 1 + ListCallsOfOp
                  /\ ListCallsOfOp <= 1

\* A create whose existence check refetched, returned false, and was followed
\* by the one create call.
C6_Witness ==
    /\ lastOp.op = "create"
    /\ lastOp.exists = "false"
    /\ lastOp.calls = <<ListCall("ok"), CreateCall("ok")>>

\* C7: a successful create leaves the cache uninitialized, and the existence
\* check that follows it for the same triple refetches and, when it returns,
\* returns true; a create whose create call did not succeed leaves the cache
\* initialized, holding what its existence check saw.
C7_CreateInvalidatesCache ==
    /\ lastOp.outcome = "created" => cached_entries = None
    /\ (IsCheck /\ lastOp.after_create = lastOp.triple) =>
           /\ Pre.cached = None
           /\ lastOp.calls # <<>>
           /\ lastOp.calls[1].kind = "list"
           /\ lastOp.exists \in {"true", "n/a"}
           /\ lastOp.calls[1].resp = "ok" => lastOp.got = "list" /\ lastOp.had
    /\ (lastOp.op = "create" /\ CreateCallsOfOp = 1 /\ lastOp.outcome # "created") =>
           /\ cached_entries # None
           /\ cached_entries = IF ListCallsOfOp = 1 THEN Some(toggl_entries)
                               ELSE Pre.cached

\* An existence check right after the create of its triple: it refetched,
\* found the entry in the list and returned true.
C7_Witness ==
    /\ lastOp.op = "exists"
    /\ lastOp.after_create = lastOp.triple
    /\ lastOp.calls = <<ListCall("ok")>>
    /\ lastOp.exists = "true"

\* C10: a get without forced refresh on an initialized cache issues no list
\* fetch when at most cache_duration seconds have passed since the last
\* successful fetch and issues one when more have passed; a forced refresh or
\* an uninitialized cache always issues one.
C10_CacheTTL ==
    lastOp.op \in {"get", "exists", "create"} =>
        LET initialized == Pre.cached # None /\ Pre.ts # None
        IN  /\ (~lastOp.force /\ initialized /\ lastOp.at - Pre.ts[1] <= 300) =>
                   ListCallsOfOp = 0
            /\ (~lastOp.force /\ initialized /\ lastOp.at - Pre.ts[1] > 300) =>
                   ListCallsOfOp = 1 /\ lastOp.calls[1].kind = "list"
            /\ (lastOp.force \/ Pre.cached = None) =>
                   ListCallsOfOp = 1 /\ lastOp.calls[1].kind = "list"
            /\ Pre.cached # None => Pre.ts # None

\* A get served from the cache exactly 300 s after the fetch that filled it.
C10_Witness ==
    /\ lastOp.op = "get"
    /\ ~lastOp.force
    /\ Pre.cached # None
    /\ lastOp.at - Pre.ts[1] = 300
    /\ lastOp.calls = <<>>

(***************************************************************************)
(* Properties of the sync loop (checked under SpecRun)                     *)
(***************************************************************************)

ResumeLater ==
    <<"Sync stopped due to rate limits.",
      "Run again later to sync remaining entries.",
      "Sync Complete">>

\* C8 as stated: when the k-th create call of the run is answered
\* quota-exceeded, exactly k-1 entries were created, the flag is set, the loop
\* has stopped, and the run has ended normally with the "resume later" lines
\* and the completion banner.
C8_ExactlyKMinusOneCreated ==
    lastOp.outcome = "quota" =>
        /\ created = create_calls - 1
        /\ rate_limited
        /\ pc = "done"
        /\ runLog = ResumeLater
        /\ ~ENABLED ProcessHistoryItem

\* C8 as amended: when a create call of the run is answered quota-exceeded,
\* the entries created are the earlier create calls that succeeded (k-1 of
\* them for the k-th call when no earlier call failed), the flag is set, the
\* loop has stopped at that event with no step of the run left to take, and the
\* run has ended normally with the "resume later" lines and the completion
\* banner.
C8_QuotaStopsRun ==
    lastOp.outcome = "quota" =>
        /\ created = create_calls - 1 - create_failed
        /\ create_failed = 0 => created = create_calls - 1
        /\ rate_limited
        /\ pc = "done"
        /\ runLog = ResumeLater
        /\ idx <= Len(events)
        /\ lastOp.triple = Some(CanonicalTriple(events[idx]))
        /\ ~ENABLED ProcessHistoryItem

\* Scenario C: five events, the third create call answered quota-exceeded,
\* two entries created.
C8_Witness ==
    /\ lastOp.outcome = "quota"
    /\ Len(events) = 5
    /\ create_calls = 3
    /\ create_failed = 0
    /\ created = 2
    /\ pc = "done"

\* C9 as stated: a create call that fails with any failure other than
\* quota-exceeded does not raise, and the run goes on to the next event.
C9_AnyFailureSwallowed ==
    (lastOp.op = "create" /\ CreateCallsOfOp = 1
        /\ lastOp.calls[Len(lastOp.calls)].resp \in {"http_error", "network_error"}) =>
        /\ lastOp.raised = "none"
        /\ pc # "crashed"
        /\ idx >= 2
        /\ lastOp.triple = Some(CanonicalTriple(events[idx - 1]))
        /\ (pc = "sync" \/ idx > Len(events))

\* C9 as amended: a create call answered by an HTTP error status other than
\* quota-exceeded does not raise; flag, cache and timestamp are as the
\* existence check left them, and the loop has moved on to the next event.
C9_HttpErrorSwallowed ==
    (lastOp.op = "create" /\ CreateCallsOfOp = 1
        /\ lastOp.calls[Len(lastOp.calls)].resp = "http_error") =>
        /\ lastOp.raised = "none"
        /\ lastOp.outcome = "failed"
        /\ pc # "crashed"
        /\ idx >= 2
        /\ lastOp.triple = Some(CanonicalTriple(events[idx - 1]))
        /\ (pc = "sync" \/ idx > Len(events))
        /\ cached_entries # None
        /\ IF ListCallsOfOp = 1
           THEN /\ cached_entries = Some(toggl_entries)
                /\ cache_timestamp = Some(lastOp.at)
                /\ rate_limited = FALSE
           ELSE /\ cached_entries = Pre.cached
                /\ cache_timestamp = Pre.ts
                /\ rate_limited = Pre.rl

\* A run that created an entry after an earlier create call of it had failed
\* with an HTTP error.
C9_Witness ==
    /\ create_failed >= 1
    /\ lastOp.outcome = "created"
    /\ pc = "sync"

(***************************************************************************)
(* The rate-limit flag and its warning                                     *)
(***************************************************************************)

AnsweredQuota(calls) == \E i \in 1..Len(calls) : calls[i].resp = "quota"
ListAnsweredOk(calls) ==
    \E i \in 1..Len(calls) : calls[i].kind = "list" /\ calls[i].resp = "ok"

GetHadToFetch ==
    \/ lastOp.force
    \/ Pre.cached = None
    \/ Pre.ts = None
    \/ lastOp.at - Pre.ts[1] > cache_duration

SameSecond(a, b) == a.wall - a.off = b.wall - b.off

\* The entries the check of the last operation scanned.
Scanned == cached_entries[1]

\* The match rule: same description, start and stop equal to the query's at
\* second precision with the stop present, the configured project and
\* workspace, and the same tags as a set.
RuleMatches(entry, triple) ==
    /\ entry.description = triple.description
    /\ SameSecond(entry.start, triple.start)
    /\ entry.stop # None
    /\ SameSecond(entry.stop[1], triple.end)
    /\ entry.project_id = project_id
    /\ entry.wid = workspace_id
    /\ \A tag \in Range(entry.tags) \cup Range(tags) :
          tag \in Range(entry.tags) /\ tag \in Range(tags)

\* C14: when the cache is available, the existence check answers true exactly
\* when some cached entry has the query's description, a start equal to the
\* query's start and a present stop equal to the query's end after
\* normalisation to whole seconds, the configured project id and workspace
\* id, and a tag set equal to the configured one, order ignored.
C14_ExistsIffMatch ==
    (IsCheck /\ lastOp.got = "list" /\ cached_entries # None) =>
        (lastOp.exists = "true" <=>
            \E i \in 1..Len(Scanned) : RuleMatches(Scanned[i], lastOp.triple[1]))

\* A check answered true from an entry whose times the server renders in
\* another zone with sub-second parts and whose tags come in another order.
C14_Witness ==
    /\ lastOp.op = "exists"
    /\ lastOp.got = "list"
    /\ lastOp.exists = "true"
    /\ cached_entries = Some(<<SeedReordered>>)

\* C15: a cached entry without a stop never makes the existence check answer
\* true: a true answer from the list always comes from an entry with a stop.
C15_OpenEntryNeverMatches ==
    (IsCheck /\ lastOp.got = "list" /\ cached_entries # None) =>
        /\ lastOp.exists = "true" =>
              \E i \in 1..Len(Scanned) :
                  /\ Scanned[i].stop # None
                  /\ Scanned[i].description = lastOp.triple[1].description
        /\ (\A i \in 1..Len(Scanned) : Scanned[i].stop = None) =>
              lastOp.exists = "false"

\* A check for the triple of an open entry that is cached, equal to the query
\* in every other field: answered false.
C15_Witness ==
    /\ lastOp.op = "exists"
    /\ lastOp.triple = Some(CanonicalTriple(Event(1)))
    /\ cached_entries = Some(<<SeedOpen>>)
    /\ lastOp.got = "list"
    /\ lastOp.exists = "false"

(***************************************************************************)
(* Properties of the destination deduplicator (checked under SpecDedup)    *)
(***************************************************************************)

\* The pass went through its delete loops: every list call and every delete
\* call got an answer.
TgCompleted == tgLast.outcome \in {"clean", "removed"}

\* Number of delete calls of the pass for the entry with this id.
DeleteCallsFor(id) ==
    Cardinality({k \in 1..Len(tgLast.delete_calls) : tgLast.delete_calls[k].id = id})

\* The entries the pass gathered (in the window, of the configured project)
\* that share the description of the i-th of them.
GroupAt(i) ==
    {j \in 1..Len(tgLast.fetched) :
        tgLast.fetched[j].description = tgLast.fetched[i].description}

\* C16: for every group of in-window entries of the configured project that
\* share a non-empty description and has more than one member, the pass
\* issues exactly one delete call for each member except one that has the
\* greatest start, and none for that one; it issues none for a group of one.
C16_KeepsNewestOfGroup ==
    TgCompleted =>
        \A i \in 1..Len(tgLast.fetched) :
            LET F == tgLast.fetched
                kept == {j \in GroupAt(i) : DeleteCallsFor(F[j].id) = 0}
            IN  (F[i].description # EmptyDescription
                    /\ F[i].project_id = project_id
                    /\ F[i].start.wall >= one_year_ago) =>
                    /\ DeleteCallsFor(F[i].id) <= 1
                    /\ Cardinality(kept) = 1
                    /\ \A j \in kept : \A l \in GroupAt(i) :
                          F[l].start.wall <= F[j].start.wall

\* Scenario B with a third, tied member: a group of three entries, two of
\* them sharing the greatest start; the oldest and one of the tied entries
\* are deleted, and a single entry of another description is left alone.
C16_Witness ==
    /\ tgLast.outcome = "removed"
    /\ Len(tgLast.fetched) = 4
    /\ \E i \in 1..4 :
          /\ Cardinality(GroupAt(i)) = 3
          /\ \E j, l \in GroupAt(i) :
                /\ j # l
                /\ tgLast.fetched[j].start = tgLast.fetched[l].start
                /\ tgLast.fetched[i].start.wall < tgLast.fetched[j].start.wall
                /\ DeleteCallsFor(tgLast.fetched[i].id) = 1
    /\ \E i \in 1..4 : Cardinality(GroupAt(i)) = 1
    /\ Len(tgLast.delete_calls) = 2
    /\ Len(toggl_entries) = 2

\* The entry of the server, as it was when the pass started, with this id.
EntryBefore(id) ==
    tgLast.pre_server[CHOOSE i \in 1..Len(tgLast.pre_server) :
                          tgLast.pre_server[i].id = id]

\* C17: the pass never issues a delete call for an entry whose description
\* is empty, whose project id differs from the configured one, or whose start
\* lies before the 365-day boundary.
C17_OutOfScopeNeverDeleted ==
    \A k \in 1..Len(tgLast.delete_calls) :
        LET e == EntryBefore(tgLast.delete_calls[k].id)
        IN  /\ e.description # EmptyDescription
            /\ e.project_id = project_id
            /\ e.start.wall >= one_year_ago

\* A pass over four entries of one description: two in scope, one of
\* another project and one that starts before the window. The older of the
\* two in scope is deleted; the other three are still on the server.
C17_Witness ==
    /\ tgLast.outcome = "removed"
    /\ tgLast.total_deleted = 1
    /\ Len(tgLast.pre_server) = 4
    /\ \A i \in 1..4 : tgLast.pre_server[i].description = Description(Event(1))
    /\ \E i \in 1..4 : tgLast.pre_server[i].project_id # project_id
    /\ \E i \in 1..4 : tgLast.pre_server[i].start.wall < one_year_ago
    /\ Len(toggl_entries) = 3
    /\ \E i \in 1..3 : toggl_entries[i].project_id # project_id
    /\ \E i \in 1..3 : toggl_entries[i].start.wall < one_year_ago

\* Number of delete calls of the pass answered by a success status.
DeletesAnsweredOk ==
    Cardinality({k \in 1..Len(tgLast.delete_calls) : tgLast.delete_calls[k].resp = "ok"})

\* C18: a delete call answered by a non-success status does not stop the
\* pass: the delete calls for the remaining entries of the same group and of
\* the other groups are still issued, and the count the pass reports is the
\* number of delete calls that succeeded.
C18_FailedDeleteGoesOn ==
    /\ (tgLast.n > 0 /\ tgLast.planned # <<>>
          /\ \A k \in 1..Len(tgLast.delete_calls) :
                tgLast.delete_calls[k].resp # "network_error") =>
          /\ tgLast.raised = "none"
          /\ tgLast.outcome = "removed"
          /\ Len(tgLast.delete_calls) = Len(tgLast.planned)
          /\ \A k \in 1..Len(tgLast.planned) :
                tgLast.delete_calls[k].id = tgLast.planned[k].id
          /\ tgLast.reported = Some(DeletesAnsweredOk)
    /\ tgLast.total_deleted = DeletesAnsweredOk
    /\ (tgLast.n > 0 /\ lastOp.op # "create") =>
          Len(toggl_entries) = Len(tgLast.pre_server) - DeletesAnsweredOk

\* A pass over two groups of two: the delete call of the first group is
\* answered by an error status, the delete call of the second group is still
\* issued and succeeds, and the pass reports one entry removed.
C18_Witness ==
    /\ tgLast.outcome = "removed"
    /\ Len(tgLast.delete_calls) = 2
    /\ tgLast.delete_calls[1].resp = "http_error"
    /\ tgLast.delete_calls[2].resp = "ok"
    /\ EntryBefore(tgLast.delete_calls[1].id).description
          # EntryBefore(tgLast.delete_calls[2].id).description
    /\ tgLast.reported = Some(1)
    /\ Len(toggl_entries) = 3

\* C19: a quota-exceeded answer to any call of the pass, list call or delete
\* call, ends the pass at once (it is the last call of the pass) and nothing
\* is raised; a list call answered by another HTTP error is raised out of
\* the pass.
C19_QuotaAbortsPass ==
    /\ \A k \in 1..Len(tgLast.list_calls) :
          /\ tgLast.list_calls[k].resp = "quota" =>
                /\ k = Len(tgLast.list_calls)
                /\ tgLast.delete_calls = <<>>
                /\ tgLast.raised = "none"
          /\ tgLast.list_calls[k].resp = "http_error" =>
                tgLast.raised = "http_error"
    /\ \A k \in 1..Len(tgLast.delete_calls) :
          tgLast.delete_calls[k].resp = "quota" =>
              /\ k = Len(tgLast.delete_calls)
              /\ tgLast.raised = "none"

\* The part of C19 about the list calls: a list call answered
\* quota-exceeded is the last call of the pass, which returns without
\* raising and without deleting; another failure of a list call is raised.
C19_ListQuotaAbortsPass ==
    \A k \in 1..Len(tgLast.list_calls) :
        /\ tgLast.list_calls[k].resp = "quota" =>
              /\ k = Len(tgLast.list_calls)
              /\ tgLast.delete_calls = <<>>
              /\ tgLast.raised = "none"
              /\ tgLast.outcome = "skipped_rate_limited"
              /\ toggl_entries = tgLast.pre_server
        /\ tgLast.list_calls[k].resp \in {"http_error", "network_error"} =>
              /\ k = Len(tgLast.list_calls)
              /\ tgLast.delete_calls = <<>>
              /\ tgLast.raised = tgLast.list_calls[k].resp

\* C20: whenever the pass has deleted at least one entry, the cache is
\* uninitialized when the pass ends, and an existence check that follows is
\* not answered from entries cached before the deletion: it refetches.
C20_CacheResetAfterDeletion ==
    tgLast.total_deleted >= 1 =>
        /\ tgLast.cached_after = None
        /\ (lastOp.op = "exists" /\ lastOp.got = "list") => ListCallsOfOp = 1

\* The part of C20 for a pass that returns: after a pass that went through
\* its delete loops with at least one group of duplicates, the cache is
\* uninitialized, and the existence check that follows refetches.
C20_CacheResetWhenPassReturns ==
    tgLast.outcome = "removed" =>
        /\ tgLast.cached_after = None
        /\ lastOp.op = "exists" => ListCallsOfOp = 1

(***************************************************************************)
(* Properties of the run main() (checked under SpecMain)                   *)
(***************************************************************************)

StepNames == [k \in 1..Len(steps) |-> steps[k].step]

LastStep == IF steps = <<>> THEN "none" ELSE steps[Len(steps)].step

Ran(name) == \E k \in 1..Len(steps) : steps[k].step = name

\* C21: the source pass of a run issues exactly one bulk-remove call, carrying
\* the ids of exactly the duplicates of the fetched history, when there are
\* duplicates, and no remove call when there are none; a remove call answered
\* by a non-success status is reported, removes nothing and does not raise:
\* the run goes on to the destination pass.
C21_OneRemoveCallNoRaise ==
    Ran("trakt_dedup") =>
        LET dups == duplicates(tkLast.fetched)
        IN  /\ tkLast.outcome # "raised" /\ dups # <<>> =>
                /\ tkLast.calls = 1
                /\ Len(tkLast.payload) = Len(dups)
                /\ Range(tkLast.payload) = {dups[i].id : i \in 1..Len(dups)}
            /\ tkLast.outcome # "raised" /\ dups = <<>> =>
                /\ tkLast.calls = 0
                /\ tkLast.payload = <<>>
            /\ tkLast.status = "other" =>
                /\ tkLast.outcome = "failed"
                /\ history = tkLast.fetched
                /\ LastStep = "trakt_dedup" => pc = "toggl_dedup"
            /\ LastStep = "trakt_dedup" /\ pc = "crashed" => tkLast.calls = 0

\* A run whose remove call carried two ids, was answered by a non-success
\* status, and whose destination pass has run.
C21_Witness ==
    /\ Ran("toggl_dedup")
    /\ tkLast.status = "other"
    /\ tkLast.calls = 1
    /\ Len(tkLast.payload) = 2

(***************************************************************************)
(* Properties of the source paginator (checked under SpecFetch)            *)
(***************************************************************************)

\* The index of the first page the server answers with an empty list.
FirstEmptyPage(pages) ==
    CHOOSE k \in 1..(Len(pages) + 1) :
        /\ PageAnswer(pages, k) = <<>>
        /\ \A j \in 1..(k - 1) : PageAnswer(pages, j) # <<>>

\* Pages 1..n of the server, one after the other.
RECURSIVE ConcatPages(_, _)
ConcatPages(pages, n) ==
    IF n = 0 THEN <<>> ELSE ConcatPages(pages, n - 1) \o pages[n]

\* C22: a fetch whose requests all succeed returns the concatenation, in
\* server order, of pages 1..n, where page n+1 is the first empty page; it
\* requests the pages 1, 2, ..., n+1 in this order, n+1 requests in all, and
\* none behind the first empty page; it returns whenever the server answers
\* some page with an empty list. A fetch that fails has requested the pages
\* from 1 to the failing one in increasing order and returns nothing.
C22_PagesInOrderUpToFirstEmpty ==
    fhLast # FhNone =>
        LET n == FirstEmptyPage(trakt_pages) - 1
        IN  /\ \A k \in 1..Len(fhLast.calls) : fhLast.calls[k].page = k
            /\ Len(fhLast.calls) <= n + 1
            /\ fhLast.raised = "none" =>
                /\ Len(fhLast.calls) = n + 1
                /\ fhLast.returned = Some(ConcatPages(trakt_pages, n))
            /\ fhLast.raised # "none" => fhLast.returned = None

\* A fetch that returned two pages of items while the server held more items
\* behind the first empty page.
C22_Witness ==
    /\ fhLast.raised = "none"
    /\ Len(fhLast.calls) = 3
    /\ fhLast.returned # None
    /\ Len(fhLast.returned[1]) = 3
    /\ Len(trakt_pages) > 3
    /\ trakt_pages[4] # <<>>

(***************************************************************************)
(* Properties of the destination pagination (checked under SpecDedup)      *)
(***************************************************************************)

\* The order of cursors and starts by wall clock: seconds, then microseconds.
Earlier(a, b) == a.wall < b.wall \/ (a.wall = b.wall /\ a.us < b.us)

\* c names the wall clock of s minus one millisecond.
OneMsBefore(c, s) ==
    (c.wall - s.wall) * 1000 + (c.us - s.us) \div 1000 = 0 - 1
        /\ (c.us - s.us) % 1000 = 0

\* The batch the server answered the k-th list call of the last pass with,
\* and the least start in it.
BatchOf(k) == ServerPage(tgLast.pre_server, tgLast.list_calls[k].before)

OldestStart(batch) ==
    CHOOSE s \in {batch[i].start : i \in 1..Len(batch)} :
        \A i \in 1..Len(batch) : ~Earlier(batch[i].start, s)

\* The loop ends on this batch: it is empty or reaches behind the window.
EndsLoop(batch) ==
    batch = <<>> \/ OldestStart(batch).wall < one_year_ago

StepsBeforeLoop ==
    <<"check_env", "auth", "trakt_dedup", "toggl_dedup", "fetch_history">>

\* The loop consumed every event: no step of the run raised.
RanToTheEnd == pc = "done" /\ idx = Len(events) + 1

\* C24: the steps of a run are executed in the order source auth, source
\* dedup pass, destination dedup pass, trailing-window fetch, then one create
\* per fetched event in fetch order; no step is executed twice or before the
\* one ahead of it has returned, and a run in which no step fails has executed
\* each step once and called create once for every event the fetch returned.
C24_StepsInFixedOrder ==
    /\ \A k \in 1..Len(steps) :
          IF k <= Len(StepsBeforeLoop)
          THEN steps[k].step = StepsBeforeLoop[k]
          ELSE /\ steps[k].step = "create"
               /\ steps[k].item = k - Len(StepsBeforeLoop)
               /\ steps[k].item <= Len(events)
               /\ fhLast.returned = Some(events)
    /\ pc \in {"auth", "trakt_dedup", "toggl_dedup", "fetch_history"} =>
          /\ steps # <<>>
          /\ pc = StepAfter(LastStep)
    /\ Len(steps) > Len(StepsBeforeLoop) =>
          lastOp.triple = Some(CanonicalTriple(events[steps[Len(steps)].item]))
    /\ RanToTheEnd => Len(steps) = Len(StepsBeforeLoop) + Len(events)

\* A run that went through every step and called create for both events of
\* its window, after a device authentication.
C24_Witness ==
    /\ RanToTheEnd
    /\ Len(events) = 2
    /\ Len(steps) = 7
    /\ steps[2].calls # <<>>
    /\ tkLast.calls = 1
    /\ tgLast.outcome = "removed"

\* C25: when the loop of a run is about to process its first event, the
\* last operation on the destination client was one get with forced refresh,
\* made after the trailing-window fetch, and the cache holds its answer
\* unless that get was refused for quota.
C25_PrewarmedBeforeFirstCreate ==
    (pc = "sync" /\ LastStep = "fetch_history" /\ events # <<>>) =>
        /\ lastOp.op = "get"
        /\ lastOp.force
        /\ HasCall(lastOp.calls, "list")
        /\ (cached_entries # None \/ rate_limited)

\* The k-th executed step issued a call of this kind answered by an HTTP
\* error status other than quota-exceeded.
StepHttpError(k, kind) ==
    \E i \in 1..Len(steps[k].calls) :
        steps[k].calls[i].kind = kind /\ steps[k].calls[i].resp = "http_error"

\* What holds after a pagination request (source history fetch of the pass or
\* of the window, destination list fetch of the pass, cache refetch of an
\* existence check) was answered by a non-quota HTTP error.
PaginationFailureEndsRun ==
    /\ (Ran("trakt_dedup") /\ tkLast.outcome = "raised") =>
          pc = "crashed" /\ LastStep = "trakt_dedup"
    /\ tgLast.raised = "http_error" =>
          pc = "crashed" /\ LastStep = "toggl_dedup"
    /\ fhLast.raised = "http_error" =>
          pc = "crashed" /\ LastStep = "fetch_history" /\ events = <<>>
    /\ \A k \in 1..Len(steps) :
          StepHttpError(k, "list") =>
              /\ k = Len(steps)
              /\ pc = "done"
              /\ runLog = <<"Sync Complete">>
              /\ idx = steps[k].item

\* C26 as stated: a non-quota HTTP failure during pagination or during the
\* creation step ends the run; no later step or event is executed.
C26_HttpFailureIsFatal ==
    /\ PaginationFailureEndsRun
    /\ \A k \in 1..Len(steps) :
          StepHttpError(k, "create") =>
              /\ k = Len(steps)
              /\ pc \in {"done", "crashed"}
              /\ idx = steps[k].item

\* C26 as amended: a non-quota HTTP failure during pagination ends the run
\* (an exception leaves main() when it happens before the loop; inside the
\* loop main() catches it and prints the completion banner only), and no later
\* step or event is executed. A create call answered by a non-quota HTTP
\* error does not end the run: the loop moves on to the next event.
C26_PaginationFailureIsFatal ==
    /\ PaginationFailureEndsRun
    /\ \A k \in 1..Len(steps) :
          StepHttpError(k, "create") =>
              /\ idx > steps[k].item
              /\ k = Len(steps) =>
                    IF idx <= Len(events) THEN pc = "sync"
                    ELSE pc \in {"sync", "done"}

\* A run whose first create call failed with an HTTP error and whose second
\* event then met an HTTP error on the cache refetch.
C26_Witness ==
    /\ Len(steps) = 7
    /\ StepHttpError(6, "create")
    /\ StepHttpError(7, "list")
    /\ pc = "done"

(***************************************************************************)
(* The triple of an event (checked under SpecRun)                          *)
(***************************************************************************)

\* Scenario A: an episode of 45 minutes watched at 14:00:00Z.
ScenarioA == [Event(1) EXCEPT !.watched_at = TS(14 * 3600, 0, 0)]

\* The minutes between start and end the claim gives for an event.
MinutesOf(item) ==
    IF item.type = "movie" /\ item.runtime = None THEN 0 ELSE item.runtime[1]

\* C27: create is called once for every processed event, with the triple
\* whose end is the event's watched-at instant and whose start is that
\* instant minus the event's runtime in minutes (start = end for a runtime of
\* 0 and for a movie without a runtime); Scenario A gives start 13:15:00Z and
\* end 14:00:00Z.
C27_TripleOfEvent ==
    /\ \A j, k \in 1..Len(steps) :
          (steps[j].step = "create" /\ steps[k].step = "create"
              /\ steps[j].item = steps[k].item) => j = k
    /\ (steps # <<>> /\ LastStep = "create") =>
          LET item == events[steps[Len(steps)].item]
              t == lastOp.triple[1]
          IN  /\ lastOp.op = "create"
              /\ t.description = Description(item)
              /\ t.end = item.watched_at
              /\ t.start = TS(item.watched_at.wall - 60 * MinutesOf(item),
                              item.watched_at.us, 0)
              /\ MinutesOf(item) = 0 => DatetimeEq(t.start, t.end)
    /\ CanonicalTriple(ScenarioA).start = TS(13 * 3600 + 15 * 60, 0, 0)
    /\ CanonicalTriple(ScenarioA).end = TS(14 * 3600, 0, 0)

\* A run that created the entry of a movie without a runtime, start = end,
\* after creating the entry of an episode of 45 minutes.
C27_Witness ==
    /\ steps # <<>>
    /\ steps[Len(steps)].item = 4
    /\ events[4].type = "movie" /\ events[4].runtime = None
    /\ lastOp.outcome = "created"
    /\ lastOp.triple[1].start = lastOp.triple[1].end
    /\ created >= 2

(***************************************************************************)
(* Interleaved runs (checked under SpecRace)                               *)
(***************************************************************************)

\* Some event's triple is matched by more than one entry of the destination.
DuplicateOnServer ==
    \E i \in 1..Len(events) : MatchesOnServer(CanonicalTriple(events[i])) > 1

\* C28: two loops that share the cache and the rate-limit flag leave no
\* duplicate entry as long as one of them runs only after the other has
\* returned; interleaved, they reach a state in which both have passed the
\* existence check for the same triple and both have issued a create call
\* for it (the state C28_Witness describes).
C28_NoDuplicateWhenSerialized ==
    ~race.overlapped => ~DuplicateOnServer

\* Both loops passed the existence check for the first event's triple before
\* either created it, both issued the create call, and the destination holds
\* the entry twice.
C28_Witness ==
    /\ race.overlapped
    /\ 1 \in race.runs[1].posted
    /\ 1 \in race.runs[2].posted
    /\ MatchesOnServer(CanonicalTriple(events[1])) = 2

(***************************************************************************)
(* The cached value (checked under SpecDedup)                              *)
(***************************************************************************)

\* C29: every step leaves the cached value as it was, resets it to
\* uninitialized, or replaces it by the complete answer of a list call made
\* in that step; a destination pass and a successful create never do the
\* last: they leave the value or reset it, and a successful create resets it.
C29_CacheWholeResponseOrNone ==
    [][ /\ \/ cached_entries' = cached_entries
           \/ cached_entries' = None
           \/ /\ cached_entries' = Some(toggl_entries)
              /\ lastOp' # lastOp
              /\ ListAnsweredOk(lastOp'.calls)
        /\ tgLast' # tgLast => cached_entries' \in {cached_entries, None}
        /\ (lastOp' # lastOp /\ lastOp'.outcome = "created") =>
              cached_entries' = None
      ]_vars

\* The cache was filled before the pass, the pass reset it after deleting a
\* duplicate, and the create that followed refetched the list and reset the
\* cache again after its create call.
C29_Witness ==
    /\ tgLast.outcome = "removed"
    /\ tgLast.pre # None
    /\ tgLast.pre[1].cached # None
    /\ tgLast.cached_after = None
    /\ lastOp.op = "create"
    /\ ListAnsweredOk(lastOp.calls)
    /\ lastOp.outcome = "created"
    /\ cached_entries = None

(***************************************************************************)
(* The configuration check (checked under SpecMain)                        *)
(***************************************************************************)

\* No authentication, fetch, delete or create call has been issued.
NoCallIssued ==
    /\ \A k \in 1..Len(steps) : steps[k].calls = <<>>
    /\ tkLast = TkNoPass
    /\ tgLast = TgNoPass
    /\ fhLast = FhNone
    /\ lastOp = NoOp

\* C30: a run with a required variable missing ends in the configuration
\* check with exit code 1, and no authentication, fetch, delete or create
\* call is ever issued in it; with every variable set the check changes
\* nothing and the run goes on to the authentication step.
C30_MissingVariableExitsFirst ==
    /\ config # {} =>
          /\ pc \in {"check_env", "exit_1"}
          /\ steps # <<>> => pc = "exit_1" /\ StepNames = <<"check_env">>
          /\ NoCallIssued
    /\ config = {} =>
          /\ pc # "exit_1"
          /\ LastStep = "check_env" => pc = "auth" /\ NoCallIssued

\* A run that lacks one variable only and has exited with code 1.
C30_Witness ==
    /\ config = {"TOGGL_PROJECT_ID"}
    /\ pc = "exit_1"
    /\ tokens = None

(***************************************************************************)
(* The reason reported for a skipped create (checked under Spec)           *)
(***************************************************************************)

\* C31: a create that skips reports "rate limited" exactly when its existence
\* check answered true because the get returned the unavailable sentinel, and
\* "exists" exactly when the scan of the cached entries found a match.
C31_SkipReasonIsCause ==
    (lastOp.op = "create"
        /\ lastOp.outcome \in {"skipped_rate_limited", "skipped_exists"}) =>
        /\ lastOp.outcome = "skipped_rate_limited" <=> lastOp.got = "sentinel"
        /\ lastOp.outcome = "skipped_exists" <=> lastOp.got = "list"

(***************************************************************************)
(* The authentication step of main() (checked under SpecMain)              *)
(***************************************************************************)

\* C32: the authentication step of main() starts with the device flow exactly
\* when no token state is persisted, starts with a token refresh exactly when
\* token state is persisted and the current time is at or after its expiry
\* minus 60 minutes, and issues no auth call otherwise; the run goes on to
\* the source dedup pass only with an access token in hand.
C32_AuthCallFollowsTokenState ==
    [][pc = "auth" =>
         LET calls == steps'[Len(steps')].calls
             first == IF calls = <<>> THEN "none" ELSE calls[1].kind
         IN  /\ steps'[Len(steps')].step = "auth"
             /\ first = "device_code" <=> tokens = None
             /\ first = "refresh_token" <=>
                   (tokens # None /\ now >= tokens[1].expires_at - 60 * 60)
             /\ first \in {"none", "device_code", "refresh_token"}
             /\ pc' = "trakt_dedup" => tokens' # None
             /\ pc' \in {"trakt_dedup", "crashed"}
             /\ tkLast' = TkNoPass]_vars

\* A run whose persisted token was exactly 60 minutes from its expiry: the
\* token was refreshed and the run stands at the source dedup pass.
C32_Witness ==
    /\ Len(steps) = 2
    /\ steps[2].step = "auth"
    /\ steps[2].calls = <<[kind |-> "refresh_token", resp |-> "ok"]>>
    /\ tokens = Some([expires_at |-> now + expires_in])
    /\ pc = "trakt_dedup"

(***************************************************************************)
(* Two runs of main() in a row                                             *)
(***************************************************************************)

\* Every call of the run so far was answered by a success status.
EveryCallSucceeded ==
    /\ \A k \in 1..Len(steps) : \A i \in 1..Len(steps[k].calls) :
          steps[k].calls[i].resp \in {"ok", "200"}
    /\ tkLast.status \in {"none", "200"}
    /\ AllAnsweredOk(tgLast.list_calls)
    /\ AllAnsweredOk(tgLast.delete_calls)
    /\ fhLast.raised = "none"

\* main() is started again, in a new process, right after a run that
\* completed with every call succeeding: the class attributes of the client
\* and the locals of main() are fresh, the token file and both services are
\* as the first run left them.
MainAgain ==
    /\ pc = "done"
    /\ ~Ran("again")
    /\ EveryCallSucceeded
    /\ pc' = "check_env"
    /\ steps' = Append(steps, Step("again", 0, <<>>))
    /\ cached_entries' = None
    /\ cache_timestamp' = None
    /\ rate_limited' = FALSE
    /\ events' = <<>> /\ idx' = 1 /\ runLog' = <<>>
    /\ create_calls' = 0 /\ create_failed' = 0 /\ created' = 0
    /\ UNCHANGED <<toggl_entries, now, lastOp, config, tokens, trakt_pages,
                   fhLast, race, traktVars, dedupVars>>

\* Runs with every required variable set, against a destination that is
\* empty, or holds for the first event an entry that was never stopped, an
\* entry of an earlier play of the same item, or its entry twice.
InitAgain ==
    /\ ClientInit
    /\ toggl_entries \in
          {<<>>, <<SeedOpen>>,
           <<[EntryOf(CanonicalTriple(Event(1)), 0 - 3600) EXCEPT !.id = 1]>>,
           SeedTwice}
    /\ history \in MainHistories /\ tkLast = TkNoPass /\ tkPasses = 0
    /\ pc = "check_env" /\ events = <<>> /\ idx = 1 /\ runLog = <<>>
    /\ create_calls = 0 /\ create_failed = 0 /\ created = 0
    /\ config = {}
    /\ tokens \in {None, Some([expires_at |-> FarExpiry])}
    /\ steps = <<>>
    /\ \E n \in 0..MaxRunEvents : trakt_pages = PagesFor(n)
    /\ fhLast = FhNone /\ race = NoRace
    /\ DedupIdle

NextAgain == NextMain \/ MainAgain

SpecAgain == InitAgain /\ [][NextAgain]_vars

\* C33: a run that immediately follows a run in which every call succeeded
\* issues no source remove call, no destination delete call and no
\* destination create call.
C33_SecondRunIssuesNothing ==
    \A m \in 1..Len(steps) :
        steps[m].step = "again" =>
            /\ \A k \in (m + 1)..Len(steps) :
                  /\ ~HasCall(steps[k].calls, "create")
                  /\ steps[k].step = "trakt_dedup" => tkLast.calls = 0
                  /\ steps[k].step = "toggl_dedup" => tgLast.delete_calls = <<>>

(***************************************************************************)
(* What the destination pass gathers (checked under SpecDedup)             *)
(***************************************************************************)

\* C34: when every list call of the pass is answered, each by the most recent
\* entries that start before its cursor, up to the page limit, the entries
\* the pass gathers contain every entry of the configured project whose start
\* lies inside the 365-day window, entries whose start equals the oldest
\* start of an earlier batch included. Stated for the entries whose start the
\* server renders in UTC.
C34_EveryWindowEntryGathered ==
    (tgLast.n > 0 /\ AllAnsweredOk(tgLast.list_calls)) =>
        \A i \in 1..Len(tgLast.pre_server) :
            LET e == tgLast.pre_server[i]
            IN  (InProject(e) /\ InWindow(e) /\ Before(e.start, FirstCursor)
                    /\ e.start.off = 0) =>
                    \E j \in 1..Len(tgLast.fetched) : tgLast.fetched[j] = e

(***************************************************************************)
(* The window of the list calls of a run (checked under SpecRun)           *)
(***************************************************************************)

\* C35: every list call an existence check of the per-event step makes after
\* a pre-warm (after a create dropped the cache, or after the TTL ran out)
\* asks for the window the pre-warm fetch asked for.
C35_RefetchAsksPreWarmWindow ==
    \A k \in 1..Len(steps) :
        (steps[k].step = "create" /\ steps[1].step = "prewarm") =>
            \A i \in 1..Len(steps[k].calls) :
                steps[k].calls[i].kind = "list" =>
                    steps[k].calls[i].params = steps[1].calls[1].params

(***************************************************************************)
(* What a destination pass does to the client state (checked under         *)
(* SpecDedup)                                                              *)
(***************************************************************************)

C37_FailedRefetchWritesNothing ==
    lastOp.op # "none" =>
        LET failed == \E i \in 1..Len(lastOp.calls) :
                         lastOp.calls[i].kind = "list" /\ lastOp.calls[i].resp # "ok"
            fetched == \E i \in 1..Len(lastOp.calls) :
                          lastOp.calls[i].kind = "list" /\ lastOp.calls[i].resp = "ok"
        IN  /\ failed => cached_entries = Pre.cached /\ cache_timestamp = Pre.ts
            /\ cache_timestamp # Pre.ts => fetched
            /\ fetched => cache_timestamp = Some(lastOp.at)
            /\ lastOp.op \in {"get", "exists"} =>
                  /\ fetched => cached_entries = Some(toggl_entries)
                  /\ ~fetched => cached_entries = Pre.cached

\* The cache was filled, its TTL ran out, and the refetch of an existence
\* check was answered quota-exceeded: the old list and the old timestamp are
\* still in place.
C37_Witness ==
    /\ lastOp.op = "exists"
    /\ lastOp.got = "sentinel"
    /\ Pre.cached # None
    /\ Pre.ts # None
    /\ cached_entries = Pre.cached
    /\ cache_timestamp = Pre.ts

(***************************************************************************)
(* What the source bulk remove may carry (checked under SpecTrakt)         *)
(***************************************************************************)

\* C38: the ids of the source bulk-remove call are ids of fetched records,
\* and for every (kind, identity) key that a fetched record carries, some
\* fetched record of that key is not among them.
C38_OneRecordPerKeySurvives ==
    LET h == tkLast.fetched
    IN  /\ Range(tkLast.payload) \subseteq {h[i].id : i \in 1..Len(h)}
        /\ \A i \in 1..Len(h) :
              HasIdentity(h[i]) =>
                  \E j \in SameKey(h, i) : ~InRemoveCall(h[j])

\* A pass that sent a bulk remove over a history in which one key is carried
\* by three records: two of them are in the call, one is not.
C38_Witness ==
    /\ tkLast.calls = 1
    /\ Len(tkLast.payload) = 2
    /\ \E i \in 1..Len(tkLast.fetched) :
          /\ HasIdentity(tkLast.fetched[i])
          /\ Cardinality(SameKey(tkLast.fetched, i)) = 3
          /\ ~InRemoveCall(tkLast.fetched[i])

(***************************************************************************)
(* The process-wide clients of sync.py: class TogglAPI and class TraktAPI  *)
(* with static methods over class attributes and module constants          *)
(***************************************************************************)

\* TOGGL_PROJECT_ID, TOGGL_WORKSPACE_ID, TOGGL_TAGS: read from the
\* environment when the module is loaded; the instance-based client is
\* constructed with the same values.
TOGGL_PROJECT_ID == project_id
TOGGL_WORKSPACE_ID == workspace_id
TOGGL_TAGS == tags

\* TogglAPI._cache_duration
TogglAPI_cache_duration == 300

\* A process-wide get that asks for the window of the pre-warm.
TogglAPI_get_with_window(st, t, force_refresh, resp, server) ==
    get_cached_entries(st, t, Some(start_date_str), force_refresh, resp, server)

\* TogglAPI.get_cached_entries(force_refresh): st holds the class attributes
\* _cached_entries, _cache_timestamp, _rate_limited. The request carries no
\* params.
TogglAPI_get_cached_entries(st, t, force_refresh, resp, server) ==
    LET sent == <<[kind |-> "list", resp |-> resp, params |-> None]>>
    IN  IF \/ force_refresh
           \/ st.cached = None
           \/ st.ts = None
           \/ t - st.ts[1] > TogglAPI_cache_duration
        THEN IF resp = "ok"
             THEN [st |-> [cached |-> Some(server), ts |-> Some(t), rl |-> FALSE],
                   ret |-> Some(server), calls |-> sent, raised |-> "none",
                   warned |-> FALSE]
             ELSE IF resp = "quota"
             THEN [st |-> [st EXCEPT !.rl = TRUE], ret |-> None, calls |-> sent,
                   raised |-> "none", warned |-> ~st.rl]
             ELSE [st |-> st, ret |-> None, calls |-> sent, raised |-> resp,
                   warned |-> FALSE]
        ELSE [st |-> st, ret |-> st.cached, calls |-> <<>>, raised |-> "none",
              warned |-> FALSE]

\* TogglAPI.entry_exists(description, start_time, end_time)
TogglAPI_entry_exists(st, t, triple, resp, server) ==
    LET g == TogglAPI_get_cached_entries(st, t, FALSE, resp, server)
        start_time == normalize_timestamp(triple.start)
        end_time == normalize_timestamp(triple.end)
        Found(entry) ==
            /\ entry.description = triple.description
            /\ DatetimeEq(normalize_timestamp(entry.start), start_time)
            /\ IF entry.stop # None
               THEN DatetimeEq(normalize_timestamp(entry.stop[1]), end_time)
               ELSE FALSE
            /\ entry.project_id = TOGGL_PROJECT_ID
            /\ Range(entry.tags) = Range(TOGGL_TAGS)
            /\ entry.wid = TOGGL_WORKSPACE_ID
    IN  [st |-> g.st, calls |-> g.calls, raised |-> g.raised, warned |-> g.warned,
         got |-> IF g.raised # "none" THEN "n/a"
                 ELSE IF g.ret = None THEN "sentinel" ELSE "list",
         exists |-> IF g.raised # "none" THEN "n/a"
                    ELSE IF g.ret = None THEN "true"
                    ELSE IF \E i \in 1..Len(g.ret[1]) : Found(g.ret[1][i])
                         THEN "true" ELSE "false"]

\* TogglAPI.create_entry(description, start_time, end_time)
TogglAPI_create_entry(st, t, triple, lresp, cresp, server) ==
    LET x == TogglAPI_entry_exists(st, t, triple, lresp, server)
        data == [id |-> NextEntryId(server), description |-> triple.description,
                 start |-> triple.start, stop |-> Some(triple.end),
                 project_id |-> TOGGL_PROJECT_ID, tags |-> TOGGL_TAGS,
                 wid |-> TOGGL_WORKSPACE_ID]
        checked == [st |-> x.st, server |-> server, calls |-> x.calls,
                    raised |-> x.raised, warned |-> x.warned, got |-> x.got,
                    exists |-> x.exists, outcome |-> "raised"]
        posted == [checked EXCEPT
                      !.calls = Append(x.calls, [kind |-> "create", resp |-> cresp])]
    IN  IF x.raised # "none" THEN checked
        ELSE IF x.exists = "true"
        THEN [checked EXCEPT !.outcome = IF x.st.rl THEN "skipped_rate_limited"
                                         ELSE "skipped_exists"]
        ELSE IF cresp = "ok"
        THEN [posted EXCEPT !.st.cached = None,
                            !.server = Append(server, data),
                            !.raised = "none", !.outcome = "created"]
        ELSE IF cresp = "quota"
        THEN [posted EXCEPT !.st.rl = TRUE, !.raised = "quota", !.outcome = "quota"]
        ELSE IF cresp = "http_error"
        THEN [posted EXCEPT !.raised = "none", !.outcome = "failed"]
        ELSE [posted EXCEPT !.raised = cresp]

\* The while True loop of TogglAPI.remove_duplicates (sync.py): the n-th list
\* call carries current_before and is answered by ListAnswer.
RECURSIVE TogglAPI_fetch_entries(_, _, _, _, _, _, _)
TogglAPI_fetch_entries(server, current_before, n, failAt, kind, all_entries, calls) ==
    LET resp == ListAnswer(n, failAt, kind)
        made == Append(calls, [kind |-> "list", resp |-> resp,
                               before |-> current_before])
        batch == ServerPage(server, current_before)
        OfProject(e) == e.project_id = TOGGL_PROJECT_ID
        project_entries == SelectSeq(batch, OfProject)
        oldest_entry == batch[FirstMin(batch)]
        oldest_time == oldest_entry.start.wall
    IN  IF resp # "ok"
        THEN [all_entries |-> all_entries, calls |-> made, ended |-> resp]
        ELSE IF batch = <<>>
        THEN [all_entries |-> all_entries, calls |-> made, ended |-> "ok"]
        ELSE IF oldest_time < today - one_year
        THEN [all_entries |-> all_entries \o project_entries, calls |-> made,
              ended |-> "ok"]
        ELSE LET start == oldest_entry.start
                 earlier == IF start.us >= 1000
                            THEN [wall |-> start.wall, us |-> start.us - 1000]
                            ELSE [wall |-> start.wall - 1, us |-> start.us + 999000]
             IN  TogglAPI_fetch_entries(server, earlier, n + 1, failAt, kind,
                                        all_entries \o project_entries, made)

\* for description, entries in duplicates.items(): entries.sort(...);
\* entries[:-1]. The entries the delete calls are made for, in order: the
\* descriptions in the order they were first seen, each group sorted by start
\* and without its last entry.
RECURSIVE TogglAPI_duplicates(_, _)
TogglAPI_duplicates(filtered_entries, i) ==
    IF i > Len(filtered_entries) THEN <<>>
    ELSE LET desc == filtered_entries[i].description
             WithDesc(x) == x.description = desc
             entries == sort_by_start(SelectSeq(filtered_entries, WithDesc))
             is_key == /\ desc # EmptyDescription
                       /\ \A j \in 1..(i - 1) : filtered_entries[j].description # desc
                       /\ Len(entries) > 1
         IN  (IF is_key THEN SubSeq(entries, 1, Len(entries) - 1) ELSE <<>>)
             \o TogglAPI_duplicates(filtered_entries, i + 1)

\* requests.delete for the k-th entry and those after it: status 200 counts
\* as deleted, another status is printed, no answer raises out of the pass.
RECURSIVE TogglAPI_delete(_, _, _, _)
TogglAPI_delete(todo, resps, k, acc) ==
    IF k > Len(todo) THEN acc
    ELSE LET call == [kind |-> "delete", id |-> todo[k].id, resp |-> resps[k]]
             Stays(x) == x.id # todo[k].id
             made == [acc EXCEPT !.calls = Append(acc.calls, call)]
         IN  IF resps[k] = "ok"
             THEN TogglAPI_delete(todo, resps, k + 1,
                      [made EXCEPT !.server = SelectSeq(acc.server, Stays),
                                   !.total_deleted = acc.total_deleted + 1])
             ELSE IF resps[k] = "network_error"
             THEN [made EXCEPT !.raised = "network_error"]
             ELSE TogglAPI_delete(todo, resps, k + 1, made)

\* TogglAPI.remove_duplicates() of sync.py.
TogglAPI_remove_duplicates(st, server, failAt, kind, resps) ==
    LET f == TogglAPI_fetch_entries(server, [wall |-> today, us |-> 0], 1,
                                    failAt, kind, <<>>, <<>>)
        InLastYear(e) == e.start.wall >= today - one_year
        filtered_entries == SelectSeq(f.all_entries, InLastYear)
        todo == TogglAPI_duplicates(filtered_entries, 1)
        d == TogglAPI_delete(todo, resps, 1,
                 [server |-> server, calls |-> <<>>, total_deleted |-> 0,
                  raised |-> "none"])
        returned == [st |-> st, server |-> server, list_calls |-> f.calls,
                     all_entries |-> f.all_entries, fetched |-> <<>>,
                     planned |-> <<>>, delete_calls |-> <<>>, total_deleted |-> 0,
                     reported |-> None, raised |-> "none",
                     outcome |-> "skipped_rate_limited"]
        found == [returned EXCEPT !.fetched = filtered_entries, !.planned = todo]
        looped == [found EXCEPT !.server = d.server, !.delete_calls = d.calls,
                                !.total_deleted = d.total_deleted]
    IN  IF f.ended = "quota" THEN returned
        ELSE IF f.ended # "ok"
        THEN [returned EXCEPT !.raised = f.ended, !.outcome = "raised"]
        ELSE IF todo = <<>> THEN [found EXCEPT !.outcome = "clean"]
        ELSE IF d.raised # "none"
        THEN [looped EXCEPT !.raised = d.raised, !.outcome = "raised"]
        ELSE [looped EXCEPT !.st.cached = None,
                            !.reported = Some(d.total_deleted),
                            !.outcome = "removed"]

\* The loop of TraktAPI.remove_duplicates (sync.py) that fills unique_items,
\* from entry n of the history on.
RECURSIVE TraktAPI_unique_items(_, _, _)
TraktAPI_unique_items(fetched, n, unique) ==
    IF n > Len(fetched) THEN unique
    ELSE LET entry == fetched[n]
             item_key == <<entry.type, entry.trakt>>
         IN  IF item_key[2] = NoIdentity
             THEN TraktAPI_unique_items(fetched, n + 1, unique)
             ELSE IF \/ item_key \notin DOMAIN unique
                     \/ unique[item_key].watched_at < entry.watched_at
             THEN TraktAPI_unique_items(fetched, n + 1,
                      [k \in DOMAIN unique \cup {item_key} |->
                          IF k = item_key THEN entry ELSE unique[k]])
             ELSE TraktAPI_unique_items(fetched, n + 1, unique)

\* TraktAPI.remove_duplicates(access_token) of sync.py over the history that
\* fetch_full_history returned, the remove call answered with `status`.
TraktAPI_remove_duplicates(fetched, status) ==
    LET unique == TraktAPI_unique_items(fetched, 1, [k \in {} |-> 0])
        Dup(entry) == \A k \in DOMAIN unique : unique[k] # entry
        dups == SelectSeq(fetched, Dup)
        ids == [i \in 1..Len(dups) |-> dups[i].id]
        Stays(entry) == \A i \in 1..Len(ids) : ids[i] # entry.id
    IN  IF dups = <<>>
        THEN [fetched |-> fetched, dups |-> <<>>, calls |-> 0, payload |-> <<>>,
              status |-> "none", outcome |-> "clean", history |-> fetched]
        ELSE [fetched |-> fetched, dups |-> dups, calls |-> 1, payload |-> ids,
              status |-> status,
              outcome |-> IF status = "200" THEN "removed" ELSE "failed",
              history |-> IF status = "200" THEN SelectSeq(fetched, Stays)
                          ELSE fetched]

(***************************************************************************)
(* The instance-based clients run, the process-wide clients compared       *)
(***************************************************************************)

\* The destination before the operations (times rendered in UTC): entries
\* that miss the first triple in the start, the stop, the workspace or the
\* tags; and two lists from the pool of the passes, one with two entries
\* that have no description, one with two entries of one description and an
\* entry of another project, both with an entry that starts before the window.
StaticPoolSeed == ServerOf(<<1, 2, 6, 7>>)

StaticSeeds ==
    { <<SeedNearMisses[2], SeedNearMisses[3], SeedNearMisses[5], SeedNearMisses[6]>>,
      ServerOf(<<5, 5, 7>>),
      StaticPoolSeed }

\* The two clients share no state. A behaviour runs the source client (plays
\* are recorded, then passes run) while the destination is untouched, or the
\* destination client while the source is idle: gets, checks and creates as
\* time passes, or a pass at the start of a run (before or right after the
\* entries were fetched) followed by one check or create. The source client
\* is run beside one of the destinations.
DestinationUntouched ==
    /\ lastOp = NoOp /\ tgLast = TgNoPass /\ now = 0
    /\ toggl_entries = StaticPoolSeed

\* Bound of the histories the source client is run over here.
MaxStaticHist == 2

SourceWatch ==
    /\ DestinationUntouched
    /\ Len(history) < MaxStaticHist
    /\ TraktWatch

SourceDedupNothing == DestinationUntouched /\ TraktDedupNothing

SourceDedupRemove == DestinationUntouched /\ TraktDedupRemove

NoPassYet == TraktIdle /\ tgLast = TgNoPass

StaticGet == NoPassYet /\ GetCachedEntries

StaticExists == NoPassYet /\ EntryExists

StaticCreate == NoPassYet /\ CreateEntry

StaticTick == NoPassYet /\ Tick

StaticPass ==
    /\ TraktIdle
    /\ now = 0
    /\ lastOp.op \in {"none", "get"}
    /\ toggl_entries \in StaticSeeds
    /\ TogglRemoveDuplicates

StaticCheckAfterPass == TraktIdle /\ DedupCheck

StaticCreateAfterPass == TraktIdle /\ DedupCreate

InitStatic ==
    /\ ClientInit
    /\ toggl_entries \in StaticSeeds
    /\ TraktIdle
    /\ RunIdle
    /\ DedupIdle

NextStatic ==
    \/ SourceWatch \/ SourceDedupNothing \/ SourceDedupRemove
    \/ StaticGet \/ StaticExists \/ StaticCreate \/ StaticTick
    \/ StaticPass \/ StaticCheckAfterPass \/ StaticCreateAfterPass

SpecStatic == InitStatic /\ [][NextStatic]_vars

\* The answers of the calls of one kind in a sequence of calls; every answer
\* when no such call was made (the answer is then never looked at).
AnswersOf(calls, kind) ==
    IF \E i \in 1..Len(calls) : calls[i].kind = kind
    THEN {calls[i].resp : i \in {j \in 1..Len(calls) : calls[j].kind = kind}}
    ELSE Responses

\* C39: every operation the instance-based clients carry out (a get without a
\* window, an existence check, a create, a destination pass, a source pass)
\* is matched by the process-wide client of sync.py started in the same
\* state, given the same arguments and the same answers: it issues the same
\* calls in the same order, returns the same result, and leaves the same
\* cached value, cache timestamp, rate-limit flag and server content.
C39_StaticClientsEquivalent ==
    [][LET after == [cached |-> cached_entries', ts |-> cache_timestamp',
                     rl |-> rate_limited']
           op == lastOp'
           pass == tgLast'
           failed == {n \in 1..Len(pass.list_calls) : pass.list_calls[n].resp # "ok"}
           failAt == IF failed = {} THEN 0 ELSE CHOOSE n \in failed : TRUE
           kind == IF failed = {} THEN "ok" ELSE pass.list_calls[failAt].resp
           resps == [k \in 1..MaxEntries |->
                        IF k <= Len(pass.delete_calls)
                        THEN pass.delete_calls[k].resp ELSE "ok"]
       IN  /\ (lastOp' # lastOp /\ op.op = "get") =>
                \A r \in AnswersOf(op.calls, "list") :
                   LET g == TogglAPI_get_cached_entries(Client, now, op.force, r,
                                                        toggl_entries)
                   IN  /\ g.st = after
                       /\ g.calls = op.calls
                       /\ g.raised = op.raised
                       /\ g.warned = op.warned
                       /\ op.got = "sentinel" <=> (g.raised = "none" /\ g.ret = None)
                       /\ op.got = "list" => g.ret = cached_entries'
                       /\ toggl_entries' = toggl_entries
           /\ (lastOp' # lastOp /\ op.op = "exists") =>
                \A r \in AnswersOf(op.calls, "list") :
                   TogglAPI_entry_exists(Client, now, op.triple[1], r, toggl_entries)
                      = [st |-> after, calls |-> op.calls, raised |-> op.raised,
                         warned |-> op.warned, got |-> op.got, exists |-> op.exists]
           /\ (lastOp' # lastOp /\ op.op = "create") =>
                \A l \in AnswersOf(op.calls, "list") :
                \A c \in AnswersOf(op.calls, "create") :
                   TogglAPI_create_entry(Client, now, op.triple[1], l, c,
                                         toggl_entries)
                      = [st |-> after, server |-> toggl_entries',
                         calls |-> op.calls, raised |-> op.raised,
                         warned |-> op.warned, got |-> op.got,
                         exists |-> op.exists, outcome |-> op.outcome]
           /\ tgLast' # tgLast =>
                TogglAPI_remove_duplicates(Client, toggl_entries, failAt, kind, resps)
                   = [st |-> after, server |-> toggl_entries',
                      list_calls |-> pass.list_calls,
                      all_entries |-> pass.all_entries, fetched |-> pass.fetched,
                      planned |-> pass.planned, delete_calls |-> pass.delete_calls,
                      total_deleted |-> pass.total_deleted,
                      reported |-> pass.reported, raised |-> pass.raised,
                      outcome |-> pass.outcome]
           /\ tkLast' # tkLast =>
                TraktAPI_remove_duplicates(history, tkLast'.status)
                   = [fetched |-> tkLast'.fetched, dups |-> tkLast'.dups,
                      calls |-> tkLast'.calls, payload |-> tkLast'.payload,
                      status |-> tkLast'.status, outcome |-> tkLast'.outcome,
                      history |-> history']
      ]_vars

\* A destination pass that deleted a duplicate was followed by a create that
\* stored an entry, each with the calls the process-wide client issues.
C39_Witness ==
    /\ tgLast.outcome = "removed"
    /\ tgLast.total_deleted > 0
    /\ lastOp.op = "create"
    /\ lastOp.outcome = "created"
    /\ Len(lastOp.calls) = 2


====
